---- MODULE Spec2Model ----
(***************************************************************************)
(* TempoMate timing core: GameState / PlayerState, PeriodManager and the   *)
(* seven timing methods, the App handlers that orchestrate them, and the   *)
(* TimerEngine scheduler.                                                  *)
(*                                                                         *)
(* Eight specifications share the variables:                               *)
(*   Spec       the application: only the App's event handlers act, the    *)
(*              TimerEngine is seen through its _running flag and the      *)
(*              deltas it hands to App._onTick;                            *)
(*   SpecLastFischer  the application loaded with an option whose only     *)
(*              period is a Fischer period completed by moves;             *)
(*   SpecApi    the GameState operations called directly, the way the      *)
(*              unit tests (and any other client of the core) call them,   *)
(*              next to the App's game handlers, on the first option;      *)
(*   SpecConfig the handlers of a game on the first option, with initGame   *)
(*              called directly, also with a configuration that has no     *)
(*              periods;                                                   *)
(*   SpecCorrection  the handlers of a game with the correction's save     *)
(*              callback given any submission, also negative move counts   *)
(*              and periods out of range;                                  *)
(*   SpecListeners  the GameState operations called directly by a client   *)
(*              that subscribes and unsubscribes listeners;                *)
(*   SpecMethod the PeriodManager driven directly for one side, turn by    *)
(*              turn, the way its unit tests drive it, on options that     *)
(*              have one period of each timing method;                     *)
(*   SpecTimer  the TimerEngine alone, with both clocks, the animation     *)
(*              frame queue and the visibility signal modelled, and the    *)
(*              tick callback abstracted to "may call stop()".             *)
(* Times are milliseconds.                                                 *)
(***************************************************************************)
EXTENDS Integers, Sequences, FiniteSets, TLC

VARIABLES
  status,               \* GameState.status
  activePlayer,         \* GameState.activePlayer ("none" for null)
  players,              \* GameState.left / GameState.right (PlayerState)
  optionConfig,         \* GameState.optionConfig, as an index into Configs
  freezeEnabled,        \* GameState.freezeEnabled
  soundEnabled,         \* GameState.soundEnabled
  hasBeenStarted,       \* GameState.hasBeenStarted
  preCorrectionStatus,  \* GameState._preCorrectionStatus ("null" for null)
  listeners,            \* GameState._listeners
  notified,             \* history: what the last notify() call did
  activeMethods,        \* PeriodManager.activeMethods
  periodStartMoves,     \* PeriodManager._periodStartMoves
  turnLog,              \* history: the turn the PeriodManager is driven through
  moveCounter,          \* MoveCounter.leftMoves / rightMoves
  correctionActive,     \* CorrectionMode._active
  correctionValues,     \* CorrectionMode._values (times in ms)
  correctionsApplied,   \* history: corrections saved since the last initGame
  lastTick,             \* history: what the last App._onTick call did
  running,              \* TimerEngine._running
  rafId,                \* TimerEngine._rafId: "null", "live" or "dead"
  stale,                \* pending frame callbacks _rafId no longer names
  lastTimestamp,        \* TimerEngine._lastTimestamp
  hiddenAtWallClock,    \* TimerEngine._hiddenAtWallClock
  perfNow,              \* performance.now()
  wallNow,              \* Date.now()
  visible,              \* document.visibilityState = 'visible'
  timerLog              \* history of the TimerEngine's deliveries

gameVars == <<status, activePlayer, players, optionConfig, freezeEnabled,
              soundEnabled, hasBeenStarted, preCorrectionStatus, listeners,
              notified>>
pmVars == <<activeMethods, periodStartMoves, turnLog>>
uiVars == <<correctionActive, correctionValues, correctionsApplied>>
engineVars == <<rafId, stale, lastTimestamp, hiddenAtWallClock, perfNow,
                wallNow, visible, timerLog>>
appVars == <<gameVars, pmVars, moveCounter, uiVars, lastTick>>
vars == <<appVars, running, engineVars>>

----------------------------------------------------------------------------
(* Bounds of the model                                                     *)

MaxMoves == 3        \* turn switches are followed while the sides' move counts add up to less
MaxCorrections == 1  \* corrections saved between two initGame calls
MaxUpcount == 3000   \* the up-count clock stops being ticked beyond this
Deltas == {1000, 2000}         \* deltas the engine hands to App._onTick
CorrTimes == {1000}            \* times a correction can submit
CorrMoves == {0}               \* move counts a correction can submit
MaxTurns == 3        \* turns the PeriodManager is driven through directly
MaxTicks == 4        \* ticks the PeriodManager is given directly
MethodDeltas == {500, 1000, 1500, 2500}  \* deltas given to PeriodManager.onTick
MaxListeners == 2    \* listeners subscribed at a time
MaxStale == 1        \* frame callbacks pending besides the one _rafId names
MaxElapsed == 2500   \* wall-clock time followed after the page has loaded
TimeStep == 500      \* the clocks advance in steps of this size
WallClockAtLoad == 5000  \* Date.now() when the page has loaded

----------------------------------------------------------------------------
(* utils/constants.js: Player, GameStatus, FlagState, TimingMethodType     *)

Sides == {"left", "right"}
Opp(side) == IF side = "left" THEN "right" ELSE "left"

Statuses == {"idle", "running", "paused", "frozen", "correcting"}
FlagStates == {"none", "blinking", "non_blinking"}
MethodTypes == {"TIME", "FISCHER", "DELAY", "US_DELAY", "BYO_YOMI",
                "CANADIAN_BYO", "UPCOUNT"}
CanadianMaxMs == 599000

Min(a, b) == IF a < b THEN a ELSE b
Max(a, b) == IF a > b THEN a ELSE b

(* A period configuration; a field the configuration leaves out is 0.      *)
Period(method, timeMs, delayMs, movesRequired, byoTimeMs, byoMoments) ==
  [method |-> method, timeMs |-> timeMs, delayMs |-> delayMs,
   movesRequired |-> movesRequired, byoTimeMs |-> byoTimeMs,
   byoMoments |-> byoMoments]

(* An option configuration; leftTimeMs/rightTimeMs of -1 stand for absent. *)
Option(periods, freezeDefault, soundDefault, leftTimeMs, rightTimeMs) ==
  [periods |-> periods, freezeDefault |-> freezeDefault,
   soundDefault |-> soundDefault, leftTimeMs |-> leftTimeMs,
   rightTimeMs |-> rightTimeMs]

(* The option configurations the model runs.                               *)
Configs ==
  << Option(<<Period("TIME", 2000, 0, 0, 0, 0)>>, FALSE, FALSE, -1, -1),
     Option(<<Period("TIME", 2000, 0, 0, 0, 0),
              Period("TIME", 1000, 0, 0, 0, 0)>>, TRUE, FALSE, -1, -1),
     Option(<<Period("FISCHER", 1000, 1000, 1, 0, 0),
              Period("TIME", 1000, 0, 0, 0, 0),
              Period("TIME", 1000, 0, 0, 0, 0)>>, FALSE, FALSE, -1, -1),
     Option(<<Period("DELAY", 1000, 1000, 0, 0, 0),
              Period("US_DELAY", 1000, 1000, 0, 0, 0)>>, TRUE, FALSE, -1, -1),
     Option(<<Period("TIME", 1000, 0, 0, 0, 0),
              Period("END", 0, 0, 0, 0, 0)>>, TRUE, FALSE, -1, -1),
     Option(<<Period("TIME", 1000, 0, 0, 0, 0)>>, FALSE, TRUE, 2000, -1),
     Option(<< >>, TRUE, TRUE, -1, -1),
     Option(<<Period("FISCHER", 2000, 1000, 0, 0, 0)>>, FALSE, FALSE, -1, -1),
     Option(<<Period("DELAY", 2000, 1000, 0, 0, 0)>>, FALSE, FALSE, -1, -1),
     Option(<<Period("US_DELAY", 2000, 1000, 0, 0, 0)>>,
            FALSE, FALSE, -1, -1),
     Option(<<Period("BYO_YOMI", 1000, 0, 0, 1000, 3)>>, FALSE, TRUE, -1, -1),
     Option(<<Period("BYO_YOMI", 1000, 0, 0, 1000, 0)>>, FALSE, TRUE, -1, -1),
     Option(<<Period("TIME", 1000, 0, 0, 0, 0),
              Period("BYO_YOMI", 0, 0, 0, 1000, 3)>>, FALSE, TRUE, -1, 2000),
     Option(<<Period("CANADIAN_BYO", 2000, 0, 0, 600000, 0)>>,
            FALSE, FALSE, -1, -1),
     Option(<<Period("CANADIAN_BYO", 2000, 0, 0, 2000, 0)>>,
            FALSE, FALSE, -1, -1),
     Option(<<Period("FISCHER", 1000, 1000, 1, 0, 0)>>, TRUE, FALSE, -1, -1),
     Option(<<Period("DELAY", 1000, 1000, 0, 0, 0),
              Period("DELAY", 2000, 1000, 0, 0, 0)>>, FALSE, FALSE, -1, -1) >>

(* The options the PeriodManager alone is driven on                        *)
MethodOnlyIds == {8, 9, 10, 11, 12, 13, 14, 15, 17}
MethodIds == {1} \cup MethodOnlyIds
(* The option whose only period is a Fischer period completed by moves     *)
LastFischerIds == {16}
(* The configurations that have periods, and the malformed ones            *)
ConfigIds ==
  {c \in 1..Len(Configs) : Len(Configs[c].periods) > 0}
    \ (MethodOnlyIds \cup LastFischerIds)
MalformedIds == {c \in 1..Len(Configs) : Len(Configs[c].periods) = 0}
Periods(c) == Configs[c].periods
(* config.periods[i] with the source's 0-based index                       *)
PeriodAt(c, i) == Periods(c)[i + 1]

----------------------------------------------------------------------------
(* PlayerState                                                             *)

NewPlayerState(side) ==
  [timeMs |-> 0, currentPeriod |-> 0, moves |-> 0, flagState |-> "none",
   color |-> IF side = "left" THEN "white" ELSE "black",
   delayRemainingMs |-> 0, inDelay |-> FALSE, turnStartTimeMs |-> 0,
   byoMomentsRemaining |-> 0, byoMomentTimeMs |-> 0]

(* An init that leaves the flag and the delay state of the last game       *)
PlayerInitKeepingFlag(p, timeMs, pc) ==
  [p EXCEPT !.timeMs = timeMs, !.currentPeriod = 0, !.moves = 0,
            !.turnStartTimeMs = 0, !.byoMomentsRemaining = pc.byoMoments,
            !.byoMomentTimeMs = pc.byoTimeMs]

(* PlayerState.init(periodConfig)                                          *)
PlayerInit(p, timeMs, pc) ==
  [p EXCEPT !.timeMs = timeMs, !.currentPeriod = 0, !.moves = 0,
            !.flagState = "none", !.delayRemainingMs = 0, !.inDelay = FALSE,
            !.turnStartTimeMs = 0, !.byoMomentsRemaining = pc.byoMoments,
            !.byoMomentTimeMs = pc.byoTimeMs]

setFlag(p, state) == [p EXCEPT !.flagState = state]
clearFlag(p) == [p EXCEPT !.flagState = "none"]

----------------------------------------------------------------------------
(* Timing methods.  A method instance carries the parameters its           *)
(* constructor copies from the period configuration and its own fields.    *)

NoMethod ==
  [type |-> "NONE", delayMs |-> 0, movesRequired |-> 0, byoTimeMs |-> 0,
   byoMoments |-> 0, momentsAtTurnStart |-> 0, movesInPeriod |-> 0]

(* PeriodManager.createMethod: an unknown tag (END) yields a TimeMethod.   *)
createMethod(pc) ==
  LET t == IF pc.method \in MethodTypes THEN pc.method ELSE "TIME" IN
  [type |-> t,
   delayMs |-> IF t \in {"FISCHER", "DELAY", "US_DELAY"} THEN pc.delayMs ELSE 0,
   movesRequired |-> IF t \in {"FISCHER", "CANADIAN_BYO"}
                     THEN pc.movesRequired ELSE 0,
   byoTimeMs |-> IF t = "BYO_YOMI" THEN pc.byoTimeMs
                 ELSE IF t = "CANADIAN_BYO"
                      THEN Min(pc.byoTimeMs, CanadianMaxMs) ELSE 0,
   byoMoments |-> IF t = "BYO_YOMI" THEN pc.byoMoments ELSE 0,
   momentsAtTurnStart |-> 0,
   movesInPeriod |-> 0]

(* The result of a method call: the player, the instance, the verdict.     *)
MR(p, m, expired, momentExpired) ==
  [p |-> p, m |-> m, expired |-> expired, momentExpired |-> momentExpired]

(* A variant that lets the time run below 0; the properties of the expired *)
(* clock must tell it from the code.                                       *)
CountdownOnTickUnclamped(m, deltaMs, p) ==
  MR([p EXCEPT !.timeMs = @ - deltaMs], m, p.timeMs - deltaMs <= 0, FALSE)

(* A variant that reports expiry only below 0; the properties of the tick  *)
(* that uses the last of the time must tell it from the code.              *)
CountdownOnTickLate(m, deltaMs, p) ==
  LET t == p.timeMs - deltaMs IN
  IF t <= 0 THEN MR([p EXCEPT !.timeMs = 0], m, t < 0, FALSE)
            ELSE MR([p EXCEPT !.timeMs = t], m, FALSE, FALSE)

(* TimeMethod / FischerMethod / BronsteinDelayMethod /                     *)
(* CanadianByoYomiMethod .onTick: subtract, clamp at 0, expired at 0.      *)
CountdownOnTick(m, deltaMs, p) ==
  LET t == p.timeMs - deltaMs IN
  IF t <= 0 THEN MR([p EXCEPT !.timeMs = 0], m, TRUE, FALSE)
            ELSE MR([p EXCEPT !.timeMs = t], m, FALSE, FALSE)

(* An onTick that drops what a tick overshoots the delay by; the           *)
(* properties of the separate delay must tell it from the code.            *)
UsDelayOnTickDroppingOverflow(m, deltaMs, p) ==
  LET d1 == p.delayRemainingMs - deltaMs
      q == IF p.inDelay
           THEN IF d1 <= 0
                THEN [p EXCEPT !.delayRemainingMs = 0, !.inDelay = FALSE]
                ELSE [p EXCEPT !.delayRemainingMs = d1]
           ELSE [p EXCEPT !.timeMs = @ - deltaMs]
  IN IF q.timeMs <= 0 THEN MR([q EXCEPT !.timeMs = 0], m, TRUE, FALSE)
                      ELSE MR(q, m, FALSE, FALSE)

(* UsDelayMethod.onTick                                                    *)
UsDelayOnTick(m, deltaMs, p) ==
  LET d1 == p.delayRemainingMs - deltaMs
      q == IF p.inDelay
           THEN IF d1 <= 0
                THEN [p EXCEPT !.delayRemainingMs = 0, !.inDelay = FALSE,
                               !.timeMs = IF -d1 > 0 THEN @ - (-d1) ELSE @]
                ELSE [p EXCEPT !.delayRemainingMs = d1]
           ELSE [p EXCEPT !.timeMs = @ - deltaMs]
  IN IF q.timeMs <= 0 THEN MR([q EXCEPT !.timeMs = 0], m, TRUE, FALSE)
                      ELSE MR(q, m, FALSE, FALSE)

(* A loop that reloads the full moment and drops the overflow; the         *)
(* properties of the overflow carry must tell it from the code.            *)
ByoLoopDroppingOverflow(timeMs, moments, byoTimeMs, momentExpired) ==
  IF timeMs <= 0 /\ moments > 0
  THEN IF moments - 1 <= 0
       THEN [timeMs |-> 0, moments |-> moments - 1, done |-> TRUE,
             momentExpired |-> TRUE]
       ELSE [timeMs |-> byoTimeMs, moments |-> moments - 1, done |-> FALSE,
             momentExpired |-> TRUE]
  ELSE [timeMs |-> timeMs, moments |-> moments, done |-> FALSE,
        momentExpired |-> momentExpired]

(* The while loop of ByoYomiMethod.onTick: state after the loop, with      *)
(* done = TRUE when the loop returned expired from inside.                 *)
RECURSIVE ByoLoop(_, _, _, _)
ByoLoop(timeMs, moments, byoTimeMs, momentExpired) ==
  IF timeMs <= 0 /\ moments > 0
  THEN IF moments - 1 <= 0
       THEN [timeMs |-> 0, moments |-> moments - 1, done |-> TRUE,
             momentExpired |-> TRUE]
       ELSE ByoLoop(timeMs + byoTimeMs, moments - 1, byoTimeMs, TRUE)
  ELSE [timeMs |-> timeMs, moments |-> moments, done |-> FALSE,
        momentExpired |-> momentExpired]

(* An onTick whose infinite reload keeps an overflow larger than a moment;  *)
(* the properties of the infinite byo-yomi must tell it from the code.     *)
ByoYomiOnTickKeepingOverflow(m, deltaMs, p) ==
  LET t == p.timeMs - deltaMs IN
  IF t > 0 THEN MR([p EXCEPT !.timeMs = t], m, FALSE, FALSE)
  ELSE IF m.byoMoments = 0
  THEN MR([p EXCEPT !.timeMs = m.byoTimeMs - (-t)], m, FALSE, TRUE)
  ELSE LET l == ByoLoop(t, p.byoMomentsRemaining, m.byoTimeMs, FALSE)
           q == [p EXCEPT !.timeMs = l.timeMs,
                          !.byoMomentsRemaining = l.moments]
       IN IF l.done THEN MR(q, m, TRUE, FALSE)
          ELSE IF l.timeMs <= 0
               THEN MR([q EXCEPT !.timeMs = 0], m, TRUE, FALSE)
               ELSE MR(q, m, FALSE, l.momentExpired)

(* ByoYomiMethod.onTick                                                    *)
ByoYomiOnTick(m, deltaMs, p) ==
  LET t == p.timeMs - deltaMs IN
  IF t > 0 THEN MR([p EXCEPT !.timeMs = t], m, FALSE, FALSE)
  ELSE IF m.byoMoments = 0
  THEN LET r == m.byoTimeMs - (-t) IN
       MR([p EXCEPT !.timeMs = IF r <= 0 THEN 1 ELSE r], m, FALSE, TRUE)
  ELSE LET l == ByoLoop(t, p.byoMomentsRemaining, m.byoTimeMs, FALSE)
           q == [p EXCEPT !.timeMs = l.timeMs,
                          !.byoMomentsRemaining = l.moments]
       IN IF l.done THEN MR(q, m, TRUE, FALSE)
          ELSE IF l.timeMs <= 0
               THEN MR([q EXCEPT !.timeMs = 0], m, TRUE, FALSE)
               ELSE MR(q, m, FALSE, l.momentExpired)

(* UpcountMethod.onTick                                                    *)
UpcountOnTick(m, deltaMs, p) ==
  MR([p EXCEPT !.timeMs = @ + deltaMs], m, FALSE, FALSE)

(* method.onTick(deltaMs, playerState), dispatched on the instance's type  *)
MethodOnTick(m, deltaMs, p) ==
  CASE m.type = "US_DELAY" -> UsDelayOnTick(m, deltaMs, p)
    [] m.type = "BYO_YOMI" -> ByoYomiOnTick(m, deltaMs, p)
    [] m.type = "UPCOUNT"  -> UpcountOnTick(m, deltaMs, p)
    [] OTHER               -> CountdownOnTick(m, deltaMs, p)

(* method.onTurnStart(playerState)                                         *)
MethodOnTurnStart(m, p) ==
  CASE m.type = "DELAY" ->
         MR([p EXCEPT !.turnStartTimeMs = p.timeMs], m, FALSE, FALSE)
    [] m.type = "US_DELAY" ->
         MR([p EXCEPT !.delayRemainingMs = m.delayMs, !.inDelay = TRUE],
            m, FALSE, FALSE)
    [] m.type = "BYO_YOMI" ->
         MR(p, [m EXCEPT !.momentsAtTurnStart = p.byoMomentsRemaining],
            FALSE, FALSE)
    [] OTHER -> MR(p, m, FALSE, FALSE)

(* A turn end that adds the bonus to an expired clock too; the properties  *)
(* of the Fischer bonus must tell it from the code.                        *)
FischerOnTurnEndAlways(m, p) ==
  [p EXCEPT !.timeMs = @ + m.delayMs]

(* FischerMethod.onTurnEnd                                                 *)
FischerOnTurnEnd(m, p) ==
  IF p.timeMs <= 0 THEN p ELSE [p EXCEPT !.timeMs = @ + m.delayMs]

(* A turn end that adds the whole delay back, whatever was used; the       *)
(* properties of the compensating delay must tell it from the code.        *)
BronsteinOnTurnEndAddingDelay(m, p) ==
  IF p.timeMs <= 0 \/ p.turnStartTimeMs <= 0 THEN p
  ELSE [p EXCEPT !.timeMs = @ + m.delayMs]

(* BronsteinDelayMethod.onTurnEnd                                          *)
BronsteinOnTurnEnd(m, p) ==
  IF p.timeMs <= 0 \/ p.turnStartTimeMs <= 0 THEN p
  ELSE LET timeUsed == p.turnStartTimeMs - p.timeMs
           compensation == Min(m.delayMs, Max(0, timeUsed))
           t == p.timeMs + compensation
       IN [p EXCEPT !.timeMs = IF t > p.turnStartTimeMs
                               THEN p.turnStartTimeMs ELSE t]

(* ByoYomiMethod.onTurnEnd                                                 *)
ByoYomiOnTurnEnd(m, p) ==
  IF p.timeMs > 0
  THEN LET momentsConsumed ==
             m.momentsAtTurnStart -
               (IF m.byoMoments = 0 THEN m.momentsAtTurnStart
                                    ELSE p.byoMomentsRemaining)
       IN IF momentsConsumed <= 0 THEN [p EXCEPT !.timeMs = m.byoTimeMs]
                                  ELSE p
  ELSE p

(* method.onTurnEnd(playerState)                                           *)
MethodOnTurnEnd(m, p) ==
  CASE m.type = "FISCHER" -> MR(FischerOnTurnEnd(m, p), m, FALSE, FALSE)
    [] m.type = "DELAY" -> MR(BronsteinOnTurnEnd(m, p), m, FALSE, FALSE)
    [] m.type = "US_DELAY" ->
         MR([p EXCEPT !.inDelay = FALSE, !.delayRemainingMs = 0],
            m, FALSE, FALSE)
    [] m.type = "BYO_YOMI" -> MR(ByoYomiOnTurnEnd(m, p), m, FALSE, FALSE)
    [] m.type = "CANADIAN_BYO" ->
         MR(p, [m EXCEPT !.movesInPeriod = @ + 1], FALSE, FALSE)
    [] OTHER -> MR(p, m, FALSE, FALSE)

(* A reload that leaves the count of the moves in the period              *)
CanadianReloadKeepingCount(m, p) ==
  MR([p EXCEPT !.timeMs = m.byoTimeMs], m, FALSE, FALSE)

(* CanadianByoYomiMethod.reload                                            *)
CanadianReload(m, p) ==
  MR([p EXCEPT !.timeMs = m.byoTimeMs], [m EXCEPT !.movesInPeriod = 0],
     FALSE, FALSE)

(* A variant that never finds the period complete; the properties of the   *)
(* move-based transition must tell it from the code.                       *)
isPeriodNeverCompleteByMoves(m, p, startMoves) ==
  FALSE

(* FischerMethod.isPeriodCompleteByMoves                                   *)
isPeriodCompleteByMoves(m, p, startMoves) ==
  IF m.movesRequired <= 0 THEN FALSE
  ELSE (p.moves - startMoves) >= m.movesRequired

----------------------------------------------------------------------------
(* GameState.  g is the record of the GameState object's fields.           *)

GS ==
  [status |-> status, activePlayer |-> activePlayer, players |-> players,
   optionConfig |-> optionConfig, freezeEnabled |-> freezeEnabled,
   soundEnabled |-> soundEnabled, hasBeenStarted |-> hasBeenStarted,
   preCorrectionStatus |-> preCorrectionStatus, listeners |-> listeners,
   notified |-> notified]

SetGS(g) ==
  /\ status' = g.status
  /\ activePlayer' = g.activePlayer
  /\ players' = g.players
  /\ optionConfig' = g.optionConfig
  /\ freezeEnabled' = g.freezeEnabled
  /\ soundEnabled' = g.soundEnabled
  /\ hasBeenStarted' = g.hasBeenStarted
  /\ preCorrectionStatus' = g.preCorrectionStatus
  /\ listeners' = g.listeners
  /\ notified' = g.notified

(* No notification yet                                                     *)
NoNotification == [invoked |-> << >>, caught |-> 0, escaped |-> FALSE]

(* new GameState()                                                         *)
NewGameState ==
  [status |-> "idle", activePlayer |-> "none",
   players |-> [s \in Sides |-> NewPlayerState(s)],
   optionConfig |-> 0, freezeEnabled |-> FALSE, soundEnabled |-> FALSE,
   hasBeenStarted |-> FALSE, preCorrectionStatus |-> "null",
   listeners |-> << >>, notified |-> NoNotification]

(* The listeners a client subscribes: one that returns, one that throws,   *)
(* and one that calls the unsubscribe function of the first.               *)
Listeners == {"counter", "thrower", "unsubscriber"}
Throws(l) == l = "thrower"

(* this._listeners.filter((l) => l !== listener)                           *)
Unsubscribed(ls, l) == SelectSeq(ls, LAMBDA x : x # l)

(* _listeners after the listener l has run                                 *)
AfterListener(ls, l) ==
  IF l = "unsubscriber" THEN Unsubscribed(ls, "counter") ELSE ls

(* GameState.onChange(listener)                                            *)
onChange(g, l) == [g EXCEPT !.listeners = Append(@, l)]

(* the function onChange(listener) returned                                *)
unsubscribe(g, l) == [g EXCEPT !.listeners = Unsubscribed(@, l)]

(* The loop of GameState.notify() over the array it started on: every      *)
(* listener is called inside try/catch.                                    *)
RECURSIVE notifyLoop(_, _, _, _)
notifyLoop(snapshot, i, ls, log) ==
  IF i > Len(snapshot) THEN [listeners |-> ls, notified |-> log]
  ELSE notifyLoop(snapshot, i + 1, AfterListener(ls, snapshot[i]),
                  [log EXCEPT !.invoked = Append(@, snapshot[i]),
                              !.caught = IF Throws(snapshot[i]) THEN @ + 1
                                         ELSE @])

(* A notify without the try/catch: the first listener that throws ends the *)
(* loop and the exception leaves notify.                                   *)
notifyWithoutCatch(g) ==
  LET ls == g.listeners
      throwers == {i \in 1..Len(ls) : Throws(ls[i])}
      last == IF throwers = {} THEN Len(ls)
              ELSE CHOOSE i \in throwers : \A j \in throwers : i <= j
      invoked == SubSeq(ls, 1, last)
  IN [g EXCEPT
        !.listeners = IF \E i \in 1..last : ls[i] = "unsubscriber"
                      THEN Unsubscribed(ls, "counter") ELSE ls,
        !.notified = [invoked |-> invoked, caught |-> 0,
                      escaped |-> throwers # {}]]

(* GameState.notify()                                                      *)
notify(g) ==
  LET r == notifyLoop(g.listeners, 1, g.listeners, NoNotification)
  IN [g EXCEPT !.listeners = r.listeners, !.notified = r.notified]

(* config.leftTimeMs ?? firstPeriod.timeMs                                 *)
StartTime(c, side) ==
  LET o == IF side = "left" THEN Configs[c].leftTimeMs
                            ELSE Configs[c].rightTimeMs
  IN IF o = -1 THEN PeriodAt(c, 0).timeMs ELSE o

(* initGame throws on this configuration (after its first assignments)    *)
initGameThrows(c) == Len(Periods(c)) = 0

(* GameState.initGame(config): the GameState it leaves, also when it       *)
(* throws at the validation of the periods                                 *)
initGame(g, c) ==
  LET g1 == [g EXCEPT !.optionConfig = c, !.status = "idle",
                      !.activePlayer = "none", !.hasBeenStarted = FALSE,
                      !.freezeEnabled = Configs[c].freezeDefault,
                      !.soundEnabled = Configs[c].soundDefault]
  IN IF initGameThrows(c) THEN g1
     ELSE notify([g1 EXCEPT !.players = [s \in Sides |->
               [PlayerInit(g.players[s], StartTime(c, s), PeriodAt(c, 0))
                  EXCEPT !.color = IF s = "left" THEN "white" ELSE "black"]]])

(* A start that makes the tapping side itself the active one               *)
startGameForTapper(g, side) ==
  [g EXCEPT !.activePlayer = side, !.status = "running",
            !.hasBeenStarted = TRUE,
            !.players = [s \in Sides |->
               [g.players[s] EXCEPT !.color = IF s = side THEN "white"
                                                        ELSE "black"]]]

(* GameState.startGame(side): no status guard in the source                *)
startGame(g, side) ==
  notify(
  [g EXCEPT !.activePlayer = Opp(side), !.status = "running",
            !.hasBeenStarted = TRUE,
            !.players = [s \in Sides |->
               [g.players[s] EXCEPT !.color = IF s = side THEN "white"
                                                        ELSE "black"]]])

(* A variant that passes the turn without counting the move; the           *)
(* properties of the turn switch must tell it from the code.               *)
switchTurnWithoutCounting(g) ==
  IF g.status # "running" THEN g
  ELSE IF g.activePlayer = "none"
       THEN [g EXCEPT !.activePlayer = "left"]
       ELSE [g EXCEPT !.activePlayer = Opp(g.activePlayer)]

(* GameState.switchTurn()                                                  *)
switchTurn(g) ==
  IF g.status # "running" THEN g
  ELSE IF g.activePlayer = "none"
       THEN notify([g EXCEPT !.activePlayer = "left"])
       ELSE notify([g EXCEPT !.players[g.activePlayer].moves = @ + 1,
                             !.activePlayer = Opp(g.activePlayer)])

(* a pause without its status guard                                        *)
pauseFromAnyStatus(g) == [g EXCEPT !.status = "paused"]

(* GameState.pause()                                                       *)
pause(g) ==
  IF g.status = "running" THEN notify([g EXCEPT !.status = "paused"]) ELSE g

(* GameState.resume()                                                      *)
resume(g) ==
  IF g.status = "paused" THEN notify([g EXCEPT !.status = "running"]) ELSE g

(* GameState.togglePause()                                                 *)
togglePause(g) ==
  IF g.status = "running" THEN pause(g)
  ELSE IF g.status = "paused" THEN resume(g) ELSE g

(* GameState.freeze()                                                      *)
freeze(g) ==
  IF g.status = "running" \/ g.status = "paused"
  THEN notify([g EXCEPT !.status = "frozen"]) ELSE g

(* GameState.enterCorrectionMode()                                         *)
enterCorrectionMode(g) ==
  IF g.status = "paused" \/ g.status = "frozen"
  THEN notify([g EXCEPT !.preCorrectionStatus = g.status,
                        !.status = "correcting"])
  ELSE g

(* GameState.exitCorrectionMode()                                          *)
exitCorrectionMode(g) ==
  IF g.status = "correcting"
  THEN notify([g EXCEPT
                 !.status = IF g.preCorrectionStatus = "null" THEN "paused"
                            ELSE g.preCorrectionStatus,
                 !.preCorrectionStatus = "null"])
  ELSE g

(* GameState.reset()                                                       *)
reset(g) == IF g.optionConfig # 0 THEN initGame(g, g.optionConfig) ELSE g

(* GameState.toggleSound()                                                 *)
toggleSound(g) == notify([g EXCEPT !.soundEnabled = ~@])

(* GameState.toggleFreeze()                                                *)
toggleFreeze(g) ==
  IF ~g.hasBeenStarted THEN notify([g EXCEPT !.freezeEnabled = ~@]) ELSE g

(* GameState.isInFinalPeriod(side)                                         *)
isInFinalPeriod(g, side) ==
  IF g.optionConfig = 0 THEN TRUE
  ELSE g.players[side].currentPeriod >= Len(Periods(g.optionConfig)) - 1

----------------------------------------------------------------------------
(* PeriodManager.  pm is the record of the PeriodManager's fields; every   *)
(* operation returns the GameState and PeriodManager it leaves behind.     *)

PM == [am |-> activeMethods, psm |-> periodStartMoves]

SetPM(pm) ==
  /\ activeMethods' = pm.am
  /\ periodStartMoves' = pm.psm
  /\ UNCHANGED turnLog

(* No turn driven yet                                                      *)
NoTurn ==
  [inTurn |-> FALSE, turns |-> 0, ticks |-> 0, startMs |-> 0, usedMs |-> 0,
   tickedMs |-> 0, expiredInTurn |-> FALSE, consumed |-> 0,
   entered |-> FALSE, reloaded |-> FALSE,
   last |-> [op |-> "none", deltaMs |-> 0, expired |-> FALSE,
             momentExpired |-> FALSE, pmExpired |-> FALSE,
             periodTransition |-> FALSE]]

NewPeriodManager ==
  [am |-> [s \in Sides |-> NoMethod], psm |-> [s \in Sides |-> 0]]

(* What a PeriodManager call leaves and returns                            *)
PR(g, pm, expired, periodTransition) ==
  [g |-> g, pm |-> pm, expired |-> expired,
   periodTransition |-> periodTransition]

(* PeriodManager.init()                                                    *)
PMInit(g, pm) ==
  IF g.optionConfig = 0 \/ Len(Periods(g.optionConfig)) = 0 THEN pm
  ELSE [am |-> [s \in Sides |-> createMethod(PeriodAt(g.optionConfig, 0))],
        psm |-> [s \in Sides |-> 0]]

(* PeriodManager.getMethodType(side): without a method, TIME               *)
getMethodType(pm, side) ==
  IF pm.am[side].type = "NONE" THEN "TIME" ELSE pm.am[side].type

(* PeriodManager.onTurnStart(side)                                         *)
PMOnTurnStart(g, pm, side) ==
  IF pm.am[side].type = "NONE" THEN PR(g, pm, FALSE, FALSE)
  ELSE LET r == MethodOnTurnStart(pm.am[side], g.players[side]) IN
       PR([g EXCEPT !.players[side] = r.p], [pm EXCEPT !.am[side] = r.m],
          FALSE, FALSE)

(* PeriodManager.onTurnEnd(side)                                           *)
PMOnTurnEnd(g, pm, side) ==
  IF pm.am[side].type = "NONE" THEN PR(g, pm, FALSE, FALSE)
  ELSE LET r == MethodOnTurnEnd(pm.am[side], g.players[side]) IN
       PR([g EXCEPT !.players[side] = r.p], [pm EXCEPT !.am[side] = r.m],
          FALSE, FALSE)

(* A variant that drops the time carried into the new period; the          *)
(* properties of the period transitions must tell it from the code.        *)
NewPeriodTimeDroppingCarry(p, newConfig) ==
  newConfig.timeMs

(* The time _transitionPlayerToPeriod assigns for the new period           *)
NewPeriodTime(p, newConfig) ==
  CASE newConfig.method = "BYO_YOMI" -> newConfig.byoTimeMs
    [] newConfig.method = "CANADIAN_BYO" -> newConfig.byoTimeMs
    [] newConfig.method = "UPCOUNT" -> 0
    [] OTHER -> p.timeMs + newConfig.timeMs

(* PeriodManager._transitionPlayerToPeriod(side, periodIdx, old, new)      *)
TransitionPlayerToPeriod(g, pm, side, periodIdx, newConfig) ==
  LET p == g.players[side]
      q == [p EXCEPT
              !.currentPeriod = periodIdx,
              !.byoMomentsRemaining =
                 IF newConfig.method = "BYO_YOMI" THEN newConfig.byoMoments
                 ELSE @,
              !.byoMomentTimeMs =
                 IF newConfig.method = "BYO_YOMI" THEN newConfig.byoTimeMs
                 ELSE @,
              !.timeMs = NewPeriodTime(p, newConfig),
              !.delayRemainingMs = 0,
              !.inDelay = FALSE]
  IN PR([g EXCEPT !.players[side] = q],
        [pm EXCEPT !.am[side] = createMethod(newConfig),
                   !.psm[side] = p.moves],
        FALSE, FALSE)

(* A guard that moves the opponent wherever it is; the properties of the   *)
(* period index must tell it from the code.                                *)
OpponentSyncsAlways(opponentPeriod, currentPeriodIdx) ==
  TRUE

(* The guard under which a time-based transition also moves the opponent   *)
OpponentSyncs(opponentPeriod, currentPeriodIdx) ==
  opponentPeriod = currentPeriodIdx

(* PeriodManager._transitionToNextPeriod(side, moveBasedTransition)        *)
TransitionToNextPeriod(g, pm, side, moveBasedTransition) ==
  LET c == g.optionConfig
      currentPeriodIdx == g.players[side].currentPeriod
      nextPeriodIdx == currentPeriodIdx + 1
      flagged == [g EXCEPT !.players[side] = setFlag(@, "blinking")]
  IN IF nextPeriodIdx >= Len(Periods(c)) THEN PR(flagged, pm, TRUE, FALSE)
     ELSE IF PeriodAt(c, nextPeriodIdx).method = "END"
     THEN PR(flagged, pm, TRUE, FALSE)
     ELSE LET nextPeriodConfig == PeriodAt(c, nextPeriodIdx) IN
       IF moveBasedTransition
       THEN LET r == TransitionPlayerToPeriod(g, pm, side, nextPeriodIdx,
                                              nextPeriodConfig)
            IN PR(r.g, r.pm, FALSE, TRUE)
       ELSE LET g1 == [g EXCEPT !.players[side] = setFlag(@, "non_blinking")]
                r1 == TransitionPlayerToPeriod(g1, pm, side, nextPeriodIdx,
                                               nextPeriodConfig)
                r2 == IF OpponentSyncs(g.players[Opp(side)].currentPeriod,
                                       currentPeriodIdx)
                      THEN TransitionPlayerToPeriod(r1.g, r1.pm, Opp(side),
                                            nextPeriodIdx, nextPeriodConfig)
                      ELSE r1
            IN PR(r2.g, r2.pm, FALSE, TRUE)

(* PeriodManager._handleExpiry(side)                                       *)
HandleExpiry(g, pm, side) ==
  IF isInFinalPeriod(g, side)
  THEN PR([g EXCEPT !.players[side] = setFlag(@, "blinking")], pm,
          TRUE, FALSE)
  ELSE TransitionToNextPeriod(g, pm, side, FALSE)

(* PeriodManager.onTick(deltaMs, side)                                     *)
(* the part of onTick after the method's own onTick has returned          *)
(* the same part with the move-based transition taken as a time-based one *)
PMAfterMethodTickSyncingOnMoves(g1, pm1, side, expired) ==
  IF expired THEN HandleExpiry(g1, pm1, side)
  ELSE IF /\ pm1.am[side].type = "FISCHER"
          /\ isPeriodCompleteByMoves(pm1.am[side], g1.players[side],
                                     pm1.psm[side])
       THEN TransitionToNextPeriod(g1, pm1, side, FALSE)
       ELSE PR(g1, pm1, FALSE, FALSE)

PMAfterMethodTick(g1, pm1, side, expired) ==
  IF expired THEN HandleExpiry(g1, pm1, side)
  ELSE IF /\ pm1.am[side].type = "FISCHER"
          /\ isPeriodCompleteByMoves(pm1.am[side], g1.players[side],
                                     pm1.psm[side])
       THEN TransitionToNextPeriod(g1, pm1, side, TRUE)
       ELSE PR(g1, pm1, FALSE, FALSE)

PMOnTick(g, pm, deltaMs, side) ==
  IF pm.am[side].type = "NONE" THEN PR(g, pm, FALSE, FALSE)
  ELSE LET r == MethodOnTick(pm.am[side], deltaMs, g.players[side])
       IN PMAfterMethodTick([g EXCEPT !.players[side] = r.p],
                            [pm EXCEPT !.am[side] = r.m], side, r.expired)

(* PeriodManager.reloadCanadianByo(side)                                   *)
reloadCanadianByo(g, pm, side) ==
  IF pm.am[side].type = "CANADIAN_BYO"
  THEN LET r == CanadianReload(pm.am[side], g.players[side]) IN
       PR([g EXCEPT !.players[side] = clearFlag(r.p)],
          [pm EXCEPT !.am[side] = r.m], FALSE, FALSE)
  ELSE PR(g, pm, FALSE, FALSE)

----------------------------------------------------------------------------
(* MoveCounter                                                             *)

recordMove(mc, side) == [mc EXCEPT ![side] = @ + 1]
setMoves(mc, side, count) == [mc EXCEPT ![side] = Max(0, count)]
resetMoves == [s \in Sides |-> 0]

----------------------------------------------------------------------------
(* History of the last handler, kept for stating properties: which handler *)
(* it was and what the timing method and the PeriodManager returned.       *)

NoOp ==
  [op |-> "none", methodExpired |-> FALSE, expired |-> FALSE,
   periodTransition |-> FALSE]

----------------------------------------------------------------------------
(* App: the event handlers.  Each handler is one action.                   *)

SetApp(g, pm, mc, op) ==
  /\ SetGS(g)
  /\ SetPM(pm)
  /\ moveCounter' = mc
  /\ lastTick' = op

(* The first-tap branch shared by _handleClockTap and _handleSwitchTurn:   *)
(* gs.startGame, periodManager.init, onTurnStart, timerEngine.start.       *)
StartBranch(side) ==
  LET g1 == startGame(GS, side)
      pm1 == PMInit(g1, PM)
      r == PMOnTurnStart(g1, pm1, g1.activePlayer)
  IN /\ SetApp(r.g, r.pm, moveCounter, [NoOp EXCEPT !.op = "start"])
     /\ running' = TRUE

(* App._switchTurn()                                                       *)
AppSwitchTurn ==
  LET previousActive == activePlayer
      r1 == PMOnTurnEnd(GS, PM, previousActive)
      mc1 == recordMove(moveCounter, previousActive)
      g2 == switchTurn(r1.g)
      r3 == PMOnTurnStart(g2, r1.pm, g2.activePlayer)
  IN /\ players["left"].moves + players["right"].moves < MaxMoves
     /\ SetApp(r3.g, r3.pm, mc1,
               [NoOp EXCEPT !.op = "switch"])
     /\ UNCHANGED running

(* App._handleClockTap(side)                                               *)
HandleClockTap(side) ==
  /\ IF status = "idle" THEN StartBranch(side)
     ELSE IF status = "running" /\ side = activePlayer THEN AppSwitchTurn
     ELSE UNCHANGED <<gameVars, pmVars, moveCounter, running>>
          /\ lastTick' = NoOp
  /\ UNCHANGED <<uiVars, engineVars>>

(* App._handleSwitchTurn()                                                 *)
HandleSwitchTurn ==
  /\ IF status = "idle" THEN StartBranch("left")
     ELSE IF status = "running" THEN AppSwitchTurn
     ELSE UNCHANGED <<gameVars, pmVars, moveCounter, running>>
          /\ lastTick' = NoOp
  /\ UNCHANGED <<uiVars, engineVars>>

(* App._handleTogglePause(), as a step of the application state            *)
TogglePauseStep ==
  IF status = "running"
  THEN SetGS(pause(GS)) /\ running' = FALSE
  ELSE IF status = "paused"
  THEN SetGS(resume(GS)) /\ running' = TRUE
  ELSE UNCHANGED <<gameVars, running>>

(* App._handleTogglePause()                                                *)
HandleTogglePause ==
  /\ TogglePauseStep
  /\ lastTick' = NoOp
  /\ UNCHANGED <<pmVars, moveCounter, uiVars, engineVars>>

(* A variant that freezes on expiry in whatever period; the properties of  *)
(* the freeze must tell it from the code.                                  *)
FreezesOnExpiryInAnyPeriod(g) ==
  g.freezeEnabled

(* The freeze condition of App._onTick                                     *)
FreezesOnExpiry(g) ==
  g.freezeEnabled /\ isInFinalPeriod(g, g.activePlayer)

(* App._onTick(deltaMs): what it leaves of the GameState, the              *)
(* PeriodManager and the engine's _running flag                            *)
OnTickResult(result, side, run, methodExpired) ==
  LET g1 == IF result.expired /\ result.g.players[side].flagState = "none"
            THEN [result.g EXCEPT !.players[side] = setFlag(@, "blinking")]
            ELSE result.g
      frz == result.expired /\ FreezesOnExpiry(g1)
  IN [g |-> IF frz THEN freeze(g1) ELSE g1,
      pm |-> result.pm,
      running |-> IF frz THEN FALSE ELSE run,
      methodExpired |-> methodExpired,
      expired |-> result.expired,
      periodTransition |-> result.periodTransition]

(* App._onTick without its status guard                                    *)
OnTickWithoutStatusGuard(g, pm, run, deltaMs) ==
  IF g.activePlayer = "none"
  THEN [g |-> g, pm |-> pm, running |-> run, methodExpired |-> FALSE,
        expired |-> FALSE, periodTransition |-> FALSE]
  ELSE OnTickResult(
         PMOnTick(g, pm, deltaMs, g.activePlayer), g.activePlayer, run,
         IF pm.am[g.activePlayer].type = "NONE" THEN FALSE
         ELSE MethodOnTick(pm.am[g.activePlayer], deltaMs,
                           g.players[g.activePlayer]).expired)

OnTick(g, pm, run, deltaMs) ==
  IF g.status # "running" \/ g.activePlayer = "none"
  THEN [g |-> g, pm |-> pm, running |-> run, methodExpired |-> FALSE,
        expired |-> FALSE, periodTransition |-> FALSE]
  ELSE OnTickResult(
         PMOnTick(g, pm, deltaMs, g.activePlayer), g.activePlayer, run,
         IF pm.am[g.activePlayer].type = "NONE" THEN FALSE
         ELSE MethodOnTick(pm.am[g.activePlayer], deltaMs,
                           g.players[g.activePlayer]).expired)

(* The up-count clock is not ticked beyond MaxUpcount.                     *)
TickInBounds(deltaMs) ==
  \A s \in Sides :
    (s = activePlayer /\ activeMethods[s].type = "UPCOUNT")
      => players[s].timeMs + deltaMs <= MaxUpcount

(* The engine delivers deltaMs to App._onTick.                             *)
AppTick(deltaMs) ==
  /\ running
  /\ TickInBounds(deltaMs)
  /\ \E r \in {OnTick(GS, PM, running, deltaMs)} :
       /\ SetApp(r.g, r.pm, moveCounter,
                 [NoOp EXCEPT !.op = "tick",
                              !.methodExpired = r.methodExpired,
                              !.expired = r.expired,
                              !.periodTransition = r.periodTransition])
       /\ running' = r.running
  /\ UNCHANGED <<uiVars, engineVars>>

(* App._openSettings().  The panel's own visibility is not kept: it gates  *)
(* nothing but the panel's selection, and the panel can be open in every   *)
(* status (open it, then resume with the pause key).                       *)
OpenSettings ==
  /\ IF status = "running"
     THEN SetGS(pause(GS)) /\ running' = FALSE
     ELSE UNCHANGED <<gameVars, running>>
  /\ lastTick' = NoOp
  /\ UNCHANGED <<pmVars, moveCounter, uiVars, engineVars>>

(* App._selectOption(config, optionNumber)                                 *)
AppSelectOption(c) ==
  /\ SetGS(initGame(GS, c))
  /\ moveCounter' = IF initGameThrows(c) THEN moveCounter ELSE resetMoves
  /\ correctionsApplied' = 0
  /\ lastTick' = [NoOp EXCEPT !.op = "select"]
  /\ UNCHANGED <<pmVars, correctionActive, correctionValues, running,
                 engineVars>>

(* The settings panel's selection: _onSelect(config) then hide()           *)
SelectOption(c) == AppSelectOption(c)

(* App._quickPreset(num)                                                   *)
QuickPreset(c) ==
  /\ status = "idle"
  /\ AppSelectOption(c)

(* App._toggleSound()                                                      *)
ToggleSound ==
  /\ SetGS(toggleSound(GS))
  /\ lastTick' = NoOp
  /\ UNCHANGED <<pmVars, moveCounter, uiVars, running, engineVars>>

(* App._toggleFreeze()                                                     *)
ToggleFreeze ==
  /\ SetGS(toggleFreeze(GS))
  /\ lastTick' = NoOp
  /\ UNCHANGED <<pmVars, moveCounter, uiVars, running, engineVars>>

(* App._confirmReset(): the confirming second tap                          *)
ConfirmReset ==
  /\ status # "idle"
  /\ running' = FALSE
  /\ SetGS(reset(GS))
  /\ moveCounter' = IF optionConfig # 0 /\ initGameThrows(optionConfig)
                    THEN moveCounter ELSE resetMoves
  /\ correctionsApplied' = 0
  /\ lastTick' = [NoOp EXCEPT !.op = "reset"]
  /\ UNCHANGED <<pmVars, correctionActive, correctionValues, engineVars>>

(* CorrectionMode._msToComponents then _componentsToMs: whole seconds      *)
FloorSeconds(ms) == (Max(0, ms) \div 1000) * 1000

(* CorrectionMode._values before enter() and after exit()                  *)
NoValues ==
  [leftTimeMs |-> 0, rightTimeMs |-> 0, leftMoves |-> 0, rightMoves |-> 0,
   leftPeriod |-> 0, rightPeriod |-> 0, totalPeriods |-> 0]

(* What App._enterCorrection hands to CorrectionMode.enter(): the clocks   *)
(* as they are                                                             *)
ValuesAtEnter ==
  [leftTimeMs |-> FloorSeconds(players["left"].timeMs),
   rightTimeMs |-> FloorSeconds(players["right"].timeMs),
   leftMoves |-> players["left"].moves,
   rightMoves |-> players["right"].moves,
   leftPeriod |-> players["left"].currentPeriod,
   rightPeriod |-> players["right"].currentPeriod,
   totalPeriods |-> IF optionConfig # 0 THEN Len(Periods(optionConfig))
                    ELSE 1]

(* App._enterCorrection()                                                  *)
EnterCorrection ==
  /\ status = "paused" \/ status = "frozen"
  /\ SetGS(enterCorrectionMode(GS))
  /\ correctionActive' = TRUE
  /\ correctionValues' = ValuesAtEnter
  /\ lastTick' = NoOp
  /\ UNCHANGED <<pmVars, moveCounter, correctionsApplied, running,
                 engineVars>>

(* What the correction overlay shows: the values taken at enter()          *)
Shown == correctionValues

(* What CorrectionMode.save() submits after _adjustField has edited one    *)
(* field (or none): a time, a move count (editing the left one moves the   *)
(* right one by the same difference) or a period within the periods that   *)
(* enter() was told of.                                                    *)
Corrections ==
  LET total == Shown.totalPeriods IN
    {Shown}
    \cup {[Shown EXCEPT !.leftTimeMs = t] : t \in CorrTimes}
    \cup {[Shown EXCEPT !.rightTimeMs = t] : t \in CorrTimes}
    \cup {[Shown EXCEPT !.leftMoves = n,
                        !.rightMoves = Max(0, @ + (n - Shown.leftMoves))] :
            n \in CorrMoves}
    \cup {[Shown EXCEPT !.rightMoves = n] : n \in CorrMoves}
    \cup {[Shown EXCEPT !.leftPeriod = i] : i \in 0..Max(0, total - 1)}
    \cup {[Shown EXCEPT !.rightPeriod = i] : i \in 0..Max(0, total - 1)}

(* Submissions the overlay's editing does not produce: a negative move     *)
(* count, a period below 0 or beyond the last one                          *)
SubmittedMoves == {-1}
OutOfDomain ==
  {[Shown EXCEPT !.leftMoves = n] : n \in SubmittedMoves}
  \cup {[Shown EXCEPT !.rightMoves = n] : n \in SubmittedMoves}
  \cup {[Shown EXCEPT !.leftPeriod = i] : i \in {-1, Shown.totalPeriods}}
  \cup {[Shown EXCEPT !.rightPeriod = i] : i \in {-1, Shown.totalPeriods}}

(* Whether the overlay's own editing can have produced the submission      *)
InDomain(corrected) ==
  /\ corrected.leftMoves >= 0 /\ corrected.rightMoves >= 0
  /\ corrected.leftPeriod \in 0..Max(0, Shown.totalPeriods - 1)
  /\ corrected.rightPeriod \in 0..Max(0, Shown.totalPeriods - 1)

(* The save callback without the renewal of the timing methods             *)
ApplyCorrectionKeepingMethods(g, pm, mc, corrected) ==
  LET maxPeriod == Len(Periods(g.optionConfig)) - 1
      lp == Max(0, Min(corrected.leftPeriod, maxPeriod))
      rp == Max(0, Min(corrected.rightPeriod, maxPeriod))
      g1 == [g EXCEPT !.players["left"].timeMs = corrected.leftTimeMs,
                      !.players["right"].timeMs = corrected.rightTimeMs,
                      !.players["left"].moves = corrected.leftMoves,
                      !.players["right"].moves = corrected.rightMoves,
                      !.players["left"].currentPeriod = lp,
                      !.players["right"].currentPeriod = rp]
      mc1 == setMoves(setMoves(mc, "left", corrected.leftMoves),
                      "right", corrected.rightMoves)
  IN [g |-> exitCorrectionMode(g1), pm |-> pm, mc |-> mc1]

(* The save callback App._enterCorrection passes to CorrectionMode.enter   *)
ApplyCorrection(g, pm, mc, corrected) ==
  LET maxPeriod == Len(Periods(g.optionConfig)) - 1
      lp == Max(0, Min(corrected.leftPeriod, maxPeriod))
      rp == Max(0, Min(corrected.rightPeriod, maxPeriod))
      g1 == [g EXCEPT !.players["left"].timeMs = corrected.leftTimeMs,
                      !.players["right"].timeMs = corrected.rightTimeMs,
                      !.players["left"].moves = corrected.leftMoves,
                      !.players["right"].moves = corrected.rightMoves,
                      !.players["left"].currentPeriod = lp,
                      !.players["right"].currentPeriod = rp]
      pm1 == [pm EXCEPT
                !.am["left"] = IF lp <= maxPeriod
                               THEN createMethod(PeriodAt(g.optionConfig, lp))
                               ELSE @,
                !.am["right"] = IF rp <= maxPeriod
                                THEN createMethod(PeriodAt(g.optionConfig, rp))
                                ELSE @]
      mc1 == setMoves(setMoves(mc, "left", corrected.leftMoves),
                      "right", corrected.rightMoves)
  IN [g |-> exitCorrectionMode(g1), pm |-> pm1, mc |-> mc1]

(* CorrectionMode.save()                                                   *)
(* save() submitting corrected, then exit()                                *)
CorrectionSaveOf(corrected) ==
  /\ correctionActive
  /\ correctionsApplied < MaxCorrections
  /\ \E r \in {ApplyCorrection(GS, PM, moveCounter, corrected)} :
       SetApp(r.g, r.pm, r.mc,
              [NoOp EXCEPT !.op = IF InDomain(corrected) THEN "correction"
                                  ELSE "correction-clamped"])
  /\ correctionActive' = FALSE
  /\ correctionValues' = NoValues
  /\ correctionsApplied' = correctionsApplied + 1
  /\ UNCHANGED <<running, engineVars>>

CorrectionSave == \E corrected \in Corrections : CorrectionSaveOf(corrected)

(* CorrectionMode.cancel()                                                 *)
CorrectionCancel ==
  /\ correctionActive
  /\ SetGS(exitCorrectionMode(GS))
  /\ correctionActive' = FALSE
  /\ correctionValues' = NoValues
  /\ lastTick' = NoOp
  /\ UNCHANGED <<pmVars, moveCounter, correctionsApplied, running,
                 engineVars>>

(* App._handleEscape()                                                     *)
HandleEscape ==
  /\ IF correctionActive
     THEN /\ SetGS(exitCorrectionMode(GS))
          /\ correctionActive' = FALSE
          /\ correctionValues' = NoValues
          /\ UNCHANGED running
     ELSE /\ IF status = "running" THEN TogglePauseStep
             ELSE UNCHANGED <<gameVars, running>>
          /\ UNCHANGED <<correctionActive, correctionValues>>
  /\ lastTick' = NoOp
  /\ UNCHANGED <<pmVars, moveCounter, correctionsApplied, engineVars>>

----------------------------------------------------------------------------
(* TimerEngine.  A frame callback registered with requestAnimationFrame    *)
(* stays pending until it runs or is cancelled; _rafId names the one       *)
(* registered last ("live" while it is pending, "dead" once it has run).   *)
(* Callbacks run whatever the visibility state is: the engine does not     *)
(* rely on the browser pausing them.  The tick callback either returns or  *)
(* calls stop() before it returns, as App._onTick does when it freezes.    *)

MaxFrameDelta == 1000

NoDelivery ==
  [handler |-> "none", ticks |-> 0, delta |-> 0, sinceHidden |-> FALSE,
   elapsed |-> 0, rafAtTick |-> "null"]

NewTimerLog ==
  [delivered |-> 0, ranMs |-> 0, sinceHidden |-> FALSE, hiddenWall |-> 0,
   last |-> NoDelivery]

(* The sum of the deliveries is followed up to the first value no running *)
(* time can reach                                                          *)
Saturated(sum) == Min(sum, MaxElapsed + TimeStep)

(* The history after a handler that handed delta to the callback (or      *)
(* nothing, when delivers is false)                                        *)
Logged(handler, delivers, delta, rafAtTick, stillSinceHidden) ==
  [delivered |-> Saturated(timerLog.delivered
                           + (IF delivers THEN delta ELSE 0)),
   ranMs |-> timerLog.ranMs,
   sinceHidden |-> stillSinceHidden,
   hiddenWall |-> IF stillSinceHidden THEN timerLog.hiddenWall ELSE 0,
   last |-> [handler |-> handler,
             ticks |-> IF delivers THEN 1 ELSE 0,
             delta |-> IF delivers THEN delta ELSE 0,
             sinceHidden |-> timerLog.sinceHidden,
             elapsed |-> IF timerLog.sinceHidden
                         THEN wallNow - timerLog.hiddenWall ELSE 0,
             rafAtTick |-> IF delivers THEN rafAtTick ELSE "null"]]

(* TimerEngine.start()                                                     *)
TimerEngineStart ==
  /\ ~running
  /\ rafId = "live" => stale < MaxStale
  /\ running' = TRUE
  /\ lastTimestamp' = perfNow
  /\ rafId' = "live"
  /\ stale' = IF rafId = "live" THEN stale + 1 ELSE stale
  /\ timerLog' = [timerLog EXCEPT !.last = [NoDelivery EXCEPT
                                              !.handler = "start"]]
  /\ UNCHANGED <<appVars, hiddenAtWallClock, perfNow, wallNow, visible>>

(* TimerEngine.stop()                                                      *)
TimerEngineStop ==
  /\ running
  /\ running' = FALSE
  /\ rafId' = "null"
  /\ timerLog' = [timerLog EXCEPT !.sinceHidden = FALSE, !.hiddenWall = 0,
                                  !.last = [NoDelivery EXCEPT
                                              !.handler = "stop"]]
  /\ UNCHANGED <<appVars, stale, lastTimestamp, hiddenAtWallClock, perfNow,
                 wallNow, visible>>

(* A frame delta handed on as it is; the properties of the frame deltas    *)
(* must tell it from the code.                                             *)
clampedDeltaUnclamped(delta) ==
  delta

(* The clamp of TimerEngine._tick: Math.min(delta, 1000)                   *)
clampedDeltaOf(delta) ==
  Min(delta, MaxFrameDelta)

(* TimerEngine._tick(timestamp), run as the frame callback _rafId names    *)
(* (named) or as one it no longer names                                    *)
Tick(named) ==
  /\ IF named THEN rafId = "live" ELSE stale > 0
  /\ IF ~running
     THEN /\ rafId' = IF named THEN "dead" ELSE rafId
          /\ stale' = IF named THEN stale ELSE stale - 1
          /\ timerLog' = Logged("tick", FALSE, 0, "null",
                                timerLog.sinceHidden)
          /\ UNCHANGED <<running, lastTimestamp>>
     ELSE LET delta == perfNow - lastTimestamp
              clampedDelta == clampedDeltaOf(delta)
              delivers == clampedDelta > 0
          IN \E stops \in IF delivers THEN BOOLEAN ELSE {FALSE} :
               /\ lastTimestamp' = perfNow
               /\ running' = ~stops
               /\ rafId' = "live"
               /\ stale' = IF named THEN stale
                           ELSE IF rafId = "live" /\ ~stops THEN stale
                           ELSE stale - 1
               /\ timerLog' = Logged("tick", delivers, clampedDelta,
                                     IF named THEN "dead" ELSE rafId,
                                     timerLog.sinceHidden /\ ~stops)
  /\ UNCHANGED <<appVars, hiddenAtWallClock, perfNow, wallNow, visible>>

(* TimerEngine._handleVisibilityChange() on the signal 'hidden'; the       *)
(* listener is registered while the engine runs                            *)
HandleHidden ==
  /\ visible
  /\ visible' = FALSE
  /\ IF running
     THEN /\ rafId' = "null"
          /\ hiddenAtWallClock' = wallNow
          /\ timerLog' = [timerLog EXCEPT !.sinceHidden = TRUE,
                                          !.hiddenWall = wallNow,
                                          !.last = [NoDelivery EXCEPT
                                                      !.handler = "hidden"]]
     ELSE UNCHANGED <<rafId, hiddenAtWallClock, timerLog>>
  /\ UNCHANGED <<appVars, running, stale, lastTimestamp, perfNow, wallNow>>

(* TimerEngine._handleVisibilityChange() on the signal 'visible'           *)
HandleVisible ==
  /\ ~visible
  /\ visible' = TRUE
  /\ IF running
     THEN LET delta == wallNow - hiddenAtWallClock
              delivers == delta > 0
          IN \E stops \in IF delivers THEN BOOLEAN ELSE {FALSE} :
               /\ lastTimestamp' = perfNow
               /\ running' = ~stops
               /\ rafId' = "live"
               /\ timerLog' = Logged("visible", delivers, delta, "null",
                                     FALSE)
     ELSE UNCHANGED <<running, rafId, lastTimestamp, timerLog>>
  /\ UNCHANGED <<appVars, stale, hiddenAtWallClock, perfNow, wallNow>>

(* Time passes.  performance.now() can stand still while the page is       *)
(* hidden (the OS suspends the tab); Date.now() always advances.           *)
Advance ==
  /\ wallNow - WallClockAtLoad < MaxElapsed
  /\ wallNow' = wallNow + TimeStep
  /\ \/ perfNow' = perfNow + TimeStep
     \/ ~visible /\ perfNow' = perfNow
  /\ timerLog' = [timerLog EXCEPT
                    !.ranMs = IF running THEN @ + TimeStep ELSE @]
  /\ UNCHANGED <<appVars, running, rafId, stale, lastTimestamp,
                 hiddenAtWallClock, visible>>

----------------------------------------------------------------------------
(* The application after App.init(): an option is loaded, nothing started. *)

EngineInit ==
  /\ running = FALSE
  /\ rafId = "null"
  /\ stale = 0
  /\ lastTimestamp = 0
  /\ hiddenAtWallClock = 0
  /\ perfNow = 0
  /\ wallNow = WallClockAtLoad
  /\ visible = TRUE
  /\ timerLog = NewTimerLog

AppInit(c) ==
  /\ LET g == initGame(NewGameState, c) IN
         /\ status = g.status
         /\ activePlayer = g.activePlayer
         /\ players = g.players
         /\ optionConfig = g.optionConfig
         /\ freezeEnabled = g.freezeEnabled
         /\ soundEnabled = g.soundEnabled
         /\ hasBeenStarted = g.hasBeenStarted
         /\ preCorrectionStatus = g.preCorrectionStatus
         /\ listeners = g.listeners
         /\ notified = g.notified
  /\ activeMethods = NewPeriodManager.am
  /\ periodStartMoves = NewPeriodManager.psm
  /\ turnLog = NoTurn
  /\ moveCounter = resetMoves
  /\ correctionActive = FALSE
  /\ correctionValues = NoValues
  /\ correctionsApplied = 0
  /\ lastTick = NoOp

Init == (\E c \in ConfigIds : AppInit(c)) /\ EngineInit

(* The application loaded with the Fischer option that has no next period  *)
InitLastFischer == (\E c \in LastFischerIds : AppInit(c)) /\ EngineInit

(* A game can be reset or configured under the open correction overlay,    *)
(* which then shows the values of the game before.  That is followed until *)
(* the overlay is closed by cancel or escape: saving the outdated values   *)
(* and starting a game under the overlay are not.                          *)
OverlayFresh == correctionActive => status = "correcting"

Next ==
  \/ \E side \in Sides : OverlayFresh /\ HandleClockTap(side)
  \/ OverlayFresh /\ HandleSwitchTurn
  \/ HandleTogglePause
  \/ \E deltaMs \in Deltas : AppTick(deltaMs)
  \/ OpenSettings
  \/ \E c \in ConfigIds : SelectOption(c)
  \/ \E c \in ConfigIds : QuickPreset(c)
  \/ ToggleFreeze
  \/ ConfirmReset
  \/ EnterCorrection
  \/ OverlayFresh /\ CorrectionSave
  \/ CorrectionCancel
  \/ HandleEscape

Spec == Init /\ [][Next]_vars

SpecLastFischer == InitLastFischer /\ [][Next]_vars

(* The GameState operations called directly, as the unit tests call them   *)
(* (nothing but the GameState changes), next to the handlers that start,   *)
(* tick, reset and configure.                                              *)
ApiCall(g) ==
  /\ SetGS(g)
  /\ lastTick' = [NoOp EXCEPT !.op = IF g = GS THEN "ignored" ELSE "none"]
  /\ UNCHANGED <<pmVars, moveCounter, uiVars, running, engineVars>>

ApiInitGame(c) == ApiCall(initGame(GS, c))
ApiStartGame(side) == ApiCall(startGame(GS, side))
ApiSwitchTurn ==
  /\ players["left"].moves + players["right"].moves < MaxMoves
  /\ ApiCall(switchTurn(GS))
ApiPause == ApiCall(pause(GS))
ApiResume == ApiCall(resume(GS))
ApiTogglePause == ApiCall(togglePause(GS))
ApiFreeze == ApiCall(freeze(GS))
ApiEnterCorrectionMode == ApiCall(enterCorrectionMode(GS))
ApiExitCorrectionMode == ApiCall(exitCorrectionMode(GS))

(* The direct calls are followed on the first option                       *)
ApiOptions == {1}

InitApi == (\E c \in ApiOptions : AppInit(c)) /\ EngineInit

NextApi ==
  \/ \E side \in Sides : HandleClockTap(side)
  \/ \E deltaMs \in Deltas : AppTick(deltaMs)
  \/ \E c \in ApiOptions : SelectOption(c)
  \/ ConfirmReset
  \/ \E side \in Sides : ApiStartGame(side)
  \/ ApiSwitchTurn
  \/ ApiPause
  \/ ApiResume
  \/ ApiTogglePause
  \/ ApiFreeze
  \/ ApiEnterCorrectionMode
  \/ ApiExitCorrectionMode

SpecApi == InitApi /\ [][NextApi]_vars

(* The application with the save callback given any submission, the       *)
(* overlay's own and those outside the domain                              *)
CorrectionSaveAny ==
  \E corrected \in Corrections \cup OutOfDomain :
    CorrectionSaveOf(corrected)

NextCorrection ==
  \/ \E side \in Sides : OverlayFresh /\ HandleClockTap(side)
  \/ HandleTogglePause
  \/ \E deltaMs \in Deltas : AppTick(deltaMs)
  \/ \E c \in ConfigIds : SelectOption(c)
  \/ ConfirmReset
  \/ EnterCorrection
  \/ OverlayFresh /\ CorrectionSaveAny
  \/ CorrectionCancel

SpecCorrection == Init /\ [][NextCorrection]_vars

(* Configuring: the first option selected, and initGame called with a     *)
(* configuration without periods, next to the handlers that play, pause,   *)
(* correct and reset a game.                                               *)
NextConfig ==
  \/ \E c \in MalformedIds : ApiInitGame(c)
  \/ \E c \in ApiOptions : SelectOption(c)
  \/ \E side \in Sides : OverlayFresh /\ HandleClockTap(side)
  \/ \E deltaMs \in Deltas : AppTick(deltaMs)
  \/ HandleTogglePause
  \/ ToggleFreeze
  \/ ConfirmReset
  \/ EnterCorrection
  \/ OverlayFresh /\ CorrectionSave
  \/ CorrectionCancel

SpecConfig == InitApi /\ [][NextConfig]_vars

(* The TimerEngine alone                                                   *)
InitTimer == AppInit(1) /\ EngineInit

NextTimer ==
  \/ TimerEngineStart
  \/ TimerEngineStop
  \/ \E named \in BOOLEAN : Tick(named)
  \/ HandleHidden
  \/ HandleVisible
  \/ Advance

SpecTimer == InitTimer /\ [][NextTimer]_vars

(* The GameState driven directly by a client that subscribes listeners and *)
(* calls the functions onChange returned, next to the operations.          *)
Subscribe(l) ==
  /\ Len(listeners) < MaxListeners
  /\ SetGS(onChange(GS, l))
  /\ UNCHANGED <<pmVars, moveCounter, uiVars, lastTick, running, engineVars>>

Unsubscribe(l) ==
  /\ SetGS(unsubscribe(GS, l))
  /\ UNCHANGED <<pmVars, moveCounter, uiVars, lastTick, running, engineVars>>

(* The operations of the GameState by name                                 *)
ApiOpNames ==
  {"initGame", "startGame", "switchTurn", "pause", "resume", "freeze",
   "enterCorrectionMode", "exitCorrectionMode", "toggleSound"}

ApiOp(name, g) ==
  CASE name = "initGame" -> initGame(g, g.optionConfig)
    [] name = "startGame" -> startGame(g, "left")
    [] name = "switchTurn" -> switchTurn(g)
    [] name = "pause" -> pause(g)
    [] name = "resume" -> resume(g)
    [] name = "freeze" -> freeze(g)
    [] name = "enterCorrectionMode" -> enterCorrectionMode(g)
    [] name = "exitCorrectionMode" -> exitCorrectionMode(g)
    [] name = "toggleSound" -> toggleSound(g)

ApiOperation(name) ==
  /\ name = "switchTurn"
       => players["left"].moves + players["right"].moves < MaxMoves
  /\ ApiCall(ApiOp(name, GS))

NextListeners ==
  \/ \E l \in Listeners : Subscribe(l)
  \/ \E l \in Listeners : Unsubscribe(l)
  \/ \E name \in ApiOpNames : ApiOperation(name)

SpecListeners == InitApi /\ [][NextListeners]_vars

(* The PeriodManager driven directly for one side: init(), then turns of   *)
(* onTurnStart, onTick and onTurnEnd, and reloadCanadianByo at any time.   *)
(* turnLog records the turn: the time at its start, the time ticked in it, *)
(* the moments the method's onTick took, and what the last call returned.  *)
MethodSide == "left"

LastCall(op, deltaMs, expired, momentExpired, pmExpired, periodTransition) ==
  [op |-> op, deltaMs |-> deltaMs, expired |-> expired,
   momentExpired |-> momentExpired, pmExpired |-> pmExpired,
   periodTransition |-> periodTransition]

methodFrame ==
  <<status, activePlayer, optionConfig, freezeEnabled, soundEnabled,
    hasBeenStarted, preCorrectionStatus, listeners, notified, moveCounter,
    uiVars, lastTick, running, engineVars>>

SetMethodResult(r) ==
  /\ players' = r.g.players
  /\ activeMethods' = r.pm.am
  /\ periodStartMoves' = r.pm.psm
  /\ UNCHANGED methodFrame

MethodPMInit ==
  /\ activeMethods[MethodSide].type = "NONE"
  /\ SetPM(PMInit(GS, PM))
  /\ UNCHANGED <<gameVars, moveCounter, uiVars, lastTick, running,
                 engineVars>>

MethodTurnStart ==
  /\ activeMethods[MethodSide].type # "NONE"
  /\ ~turnLog.inTurn
  /\ turnLog.turns < MaxTurns
  /\ SetMethodResult(PMOnTurnStart(GS, PM, MethodSide))
  /\ turnLog' = [turnLog EXCEPT
                   !.inTurn = TRUE, !.turns = @ + 1,
                   !.startMs = players[MethodSide].timeMs, !.usedMs = 0,
                   !.expiredInTurn = FALSE, !.consumed = 0,
                   !.entered = FALSE, !.reloaded = FALSE,
                   !.last = LastCall("start", 0, FALSE, FALSE, FALSE, FALSE)]

MethodTick(deltaMs) ==
  /\ turnLog.inTurn
  /\ turnLog.ticks < MaxTicks
  /\ \E mr \in {MethodOnTick(activeMethods[MethodSide], deltaMs,
                              players[MethodSide])} :
     \E r \in {PMOnTick(GS, PM, deltaMs, MethodSide)} :
       /\ SetMethodResult(r)
       /\ turnLog' = [turnLog EXCEPT
                        !.ticks = @ + 1, !.usedMs = @ + deltaMs,
                        !.tickedMs = @ + deltaMs,
                        !.expiredInTurn = @ \/ mr.expired,
                        !.consumed = @ + players[MethodSide].byoMomentsRemaining
                                       - mr.p.byoMomentsRemaining,
                        !.entered = @ \/ r.periodTransition,
                        !.last = LastCall("tick", deltaMs, mr.expired,
                                          mr.momentExpired, r.expired,
                                          r.periodTransition)]

MethodTurnEnd ==
  /\ turnLog.inTurn
  /\ SetMethodResult(PMOnTurnEnd(GS, PM, MethodSide))
  /\ turnLog' = [turnLog EXCEPT
                   !.inTurn = FALSE,
                   !.last = LastCall("end", 0, FALSE, FALSE, FALSE, FALSE)]

MethodReload ==
  /\ activeMethods[MethodSide].type # "NONE"
  /\ SetMethodResult(reloadCanadianByo(GS, PM, MethodSide))
  /\ turnLog' = [turnLog EXCEPT
                   !.reloaded = @ \/ activeMethods[MethodSide].type
                                       = "CANADIAN_BYO",
                   !.last = LastCall("reload", 0, FALSE, FALSE, FALSE, FALSE)]

InitMethod == (\E c \in MethodIds : AppInit(c)) /\ EngineInit

NextMethod ==
  \/ MethodPMInit
  \/ MethodTurnStart
  \/ \E deltaMs \in MethodDeltas : MethodTick(deltaMs)
  \/ MethodTurnEnd
  \/ MethodReload

SpecMethod == InitMethod /\ [][NextMethod]_vars

----------------------------------------------------------------------------
(* Properties                                                              *)

Additive(method) == method \in {"TIME", "FISCHER", "DELAY", "US_DELAY"}

(* The method's own onTick reports expiry for the active side on deltaMs   *)
DrivesToZero(deltaMs) ==
  /\ status = "running"
  /\ activePlayer \in Sides
  /\ activeMethods[activePlayer].type # "NONE"
  /\ MethodOnTick(activeMethods[activePlayer], deltaMs,
                  players[activePlayer]).expired

(* The side to move is in a period that has a successor other than END     *)
InNonFinalPeriod(side) ==
  /\ players[side].currentPeriod + 1 < Len(Periods(optionConfig))
  /\ PeriodAt(optionConfig, players[side].currentPeriod + 1).method # "END"

(* C1: time-based period sync.  Where periods p and p+1 both use an        *)
(* additive countdown method, a tick that drives the active side A to 0 in *)
(* non-final period p while the opponent B is in period p too leaves both  *)
(* in period p+1, A with exactly periods[p+1].timeMs, B with its pre-tick  *)
(* time plus periods[p+1].timeMs, A with the non-blinking flag, and the    *)
(* result periodTransition = true, expired = false.                        *)
C1_Sync(deltaMs) ==
  LET A == activePlayer
      B == Opp(activePlayer)
      p == players[A].currentPeriod
      c == optionConfig
  IN (/\ DrivesToZero(deltaMs)
      /\ InNonFinalPeriod(A)
      /\ Additive(PeriodAt(c, p).method)
      /\ Additive(PeriodAt(c, p + 1).method)
      /\ players[B].currentPeriod = p
      /\ AppTick(deltaMs))
     => /\ players'[A].currentPeriod = p + 1
        /\ players'[B].currentPeriod = p + 1
        /\ players'[A].timeMs = PeriodAt(c, p + 1).timeMs
        /\ players'[B].timeMs = players[B].timeMs + PeriodAt(c, p + 1).timeMs
        /\ players'[A].flagState = "non_blinking"
        /\ lastTick'.periodTransition
        /\ ~lastTick'.expired

C1_TimeBasedPeriodSync == [][\A deltaMs \in Deltas : C1_Sync(deltaMs)]_vars

(* a time-based transition has just moved both sides from period 0 to 1,   *)
(* the opponent carrying time over                                         *)
C1_Witness ==
  /\ lastTick.op = "tick"
  /\ lastTick.methodExpired /\ lastTick.periodTransition /\ ~lastTick.expired
  /\ activePlayer \in Sides
  /\ players[activePlayer].currentPeriod = 1
  /\ players[Opp(activePlayer)].currentPeriod = 1
  /\ players[activePlayer].flagState = "non_blinking"
  /\ players[activePlayer].timeMs = PeriodAt(optionConfig, 1).timeMs
  /\ players[Opp(activePlayer)].timeMs > PeriodAt(optionConfig, 1).timeMs

(* The last of the configured periods                                      *)
InLastPeriod(side) ==
  players[side].currentPeriod = Len(Periods(optionConfig)) - 1

(* C2: on a tick whose result signals expiry the status becomes frozen if  *)
(* and only if freeze mode is enabled and the active side is in its final  *)
(* period, and then the scheduler is stopped within the same tick; in      *)
(* every other case the status stays running.  The expired side's flag is  *)
(* set whether or not freeze mode is enabled.                              *)
C2_Expiry(deltaMs) ==
  (/\ status = "running"
   /\ activePlayer \in Sides
   /\ lastTick'.op = "tick"
   /\ lastTick'.expired
   /\ AppTick(deltaMs))
  => /\ (status' = "frozen") <=> (freezeEnabled /\ InLastPeriod(activePlayer))
     /\ status' = "frozen" => ~running'
     /\ status' # "frozen" => status' = "running" /\ running' = running
     /\ players'[activePlayer].flagState # "none"

C7_Switch ==
  LET out == activePlayer
      in == Opp(activePlayer)
      ended == MethodOnTurnEnd(activeMethods[out], players[out])
      started == MethodOnTurnStart(activeMethods[in], players[in])
  IN (lastTick'.op = "switch" /\ status = "running" /\ out \in Sides)
     => /\ players'[out] = [ended.p EXCEPT !.moves = players[out].moves + 1]
        /\ activeMethods'[out] = ended.m
        /\ players'[in] = started.p
        /\ activeMethods'[in] = started.m
        /\ players'[in].moves = players[in].moves
        /\ activePlayer' = in
        /\ status' = "running"

C7_MovesOnlyBySwitch ==
  \A s \in Sides :
    players'[s].moves # players[s].moves
      => \/ /\ lastTick'.op = "switch"
            /\ s = activePlayer
            /\ players'[s].moves = players[s].moves + 1
         \/ status' = "idle" /\ players'[s].moves = 0
         \/ lastTick'.op = "correction"

C7_TurnSwitch == [][C7_Switch /\ C7_MovesOnlyBySwitch]_vars

(* a Fischer side has just ended its second turn with the bonus added      *)
C7_Witness ==
  /\ lastTick.op = "switch"
  /\ status = "running"
  /\ activePlayer \in Sides
  /\ activeMethods[Opp(activePlayer)].type = "FISCHER"
  /\ players[Opp(activePlayer)].moves = 2
  /\ players[activePlayer].moves = 1
  /\ players[Opp(activePlayer)].timeMs = 3000

(* C8: after any time-based transition that moves the expiring side from   *)
(* period p to p+1 the opponent's periodIndex is at least p+1, also when   *)
(* the opponent was in a period earlier than p.                            *)
C8_Transition(deltaMs) ==
  LET A == activePlayer
      B == Opp(activePlayer)
      p == players[A].currentPeriod
  IN (/\ DrivesToZero(deltaMs)
      /\ InNonFinalPeriod(A)
      /\ AppTick(deltaMs)
      /\ players'[A].currentPeriod = p + 1)
     => players'[B].currentPeriod >= p + 1

C8_OpponentPromoted == [][\A deltaMs \in Deltas : C8_Transition(deltaMs)]_vars

(* C9: in a Fischer period with movesRequired > 0 that has a successor,    *)
(* a tick of the active side that finds its moves since period start at    *)
(* movesRequired or more, and does not exhaust its time, transitions that  *)
(* side alone: its periodIndex advances by 1, the next period's time is    *)
(* assigned (added to what the tick has left, the successor counting down  *)
(* additively), no flag is set, its move baseline becomes its moveCount,   *)
(* and the opponent's time, periodIndex, flag and timing method are        *)
(* unchanged.                                                              *)
C9_MoveBased(deltaMs) ==
  LET A == activePlayer
      B == Opp(activePlayer)
      p == players[A].currentPeriod
      c == optionConfig
  IN (/\ status = "running"
      /\ A \in Sides
      /\ activeMethods[A].type = "FISCHER"
      /\ activeMethods[A].movesRequired > 0
      /\ players[A].moves - periodStartMoves[A] >= activeMethods[A].movesRequired
      /\ players[A].timeMs - deltaMs > 0
      /\ InNonFinalPeriod(A)
      /\ Additive(PeriodAt(c, p + 1).method)
      /\ AppTick(deltaMs))
     => /\ players'[A].currentPeriod = p + 1
        /\ players'[A].timeMs =
             (players[A].timeMs - deltaMs) + PeriodAt(c, p + 1).timeMs
        /\ players'[A].flagState = players[A].flagState
        /\ periodStartMoves'[A] = players[A].moves
        /\ activeMethods'[A].type = PeriodAt(c, p + 1).method
        /\ players'[B] = players[B]
        /\ activeMethods'[B] = activeMethods[B]
        /\ periodStartMoves'[B] = periodStartMoves[B]
        /\ lastTick'.periodTransition /\ ~lastTick'.expired
        /\ status' = "running"

C9_MoveBasedTransition == [][\A deltaMs \in Deltas : C9_MoveBased(deltaMs)]_vars

(* a side has just advanced alone, with time left, the opponent staying    *)
(* behind in period 0 with no flag                                         *)
C9_Witness ==
  /\ lastTick.op = "tick"
  /\ lastTick.periodTransition /\ ~lastTick.methodExpired
  /\ activePlayer \in Sides
  /\ players[activePlayer].currentPeriod = 1
  /\ players[activePlayer].flagState = "none"
  /\ players[activePlayer].timeMs > PeriodAt(optionConfig, 1).timeMs
  /\ periodStartMoves[activePlayer] = players[activePlayer].moves
  /\ players[activePlayer].moves > 0
  /\ players[Opp(activePlayer)].currentPeriod = 0
  /\ players[Opp(activePlayer)].flagState = "none"
  /\ activeMethods[Opp(activePlayer)].type = "FISCHER"

(* The side has run out of time in the last period and shows it            *)
Expired(side) ==
  /\ InLastPeriod(side)
  /\ players[side].timeMs = 0
  /\ players[side].flagState = "blinking"

(* C10: with freeze mode disabled, when the active side's time expires in  *)
(* its final period its flag is blinking, its time 0 and the status still  *)
(* running; every later tick while that side is active leaves its time at  *)
(* 0; and after a turn switch a tick does to the opponent's clock what it  *)
(* does in a match where nobody has expired.                               *)
C10_Expiry(deltaMs) ==
  (/\ ~freezeEnabled
   /\ DrivesToZero(deltaMs)
   /\ InLastPeriod(activePlayer)
   /\ AppTick(deltaMs))
  => /\ players'[activePlayer].flagState = "blinking"
     /\ players'[activePlayer].timeMs = 0
     /\ status' = "running"
     /\ running' = running

C10_StaysAtZero(deltaMs) ==
  (/\ ~freezeEnabled
   /\ status = "running"
   /\ activePlayer \in Sides
   /\ Expired(activePlayer)
   /\ AppTick(deltaMs))
  => /\ players'[activePlayer].timeMs = 0
     /\ players'[activePlayer].flagState = "blinking"
     /\ status' = "running"

(* the tick on the clocks as they are except that the waiting side has     *)
(* time left and no flag                                                   *)
TickWithoutExpired(deltaMs) ==
  OnTick([GS EXCEPT !.players[Opp(activePlayer)].timeMs = 1000,
                    !.players[Opp(activePlayer)].flagState = "none"],
         PM, running, deltaMs)

C10_OpponentCounts(deltaMs) ==
  (/\ ~freezeEnabled
   /\ status = "running"
   /\ activePlayer \in Sides
   /\ Expired(Opp(activePlayer))
   /\ AppTick(deltaMs))
  => /\ players'[activePlayer] =
          TickWithoutExpired(deltaMs).g.players[activePlayer]
     /\ activeMethods'[activePlayer] =
          TickWithoutExpired(deltaMs).pm.am[activePlayer]
     /\ status' = TickWithoutExpired(deltaMs).g.status
     /\ players'[Opp(activePlayer)] = players[Opp(activePlayer)]

C10_RunsOnAfterExpiry ==
  [][\A deltaMs \in Deltas : /\ C10_Expiry(deltaMs)
                              /\ C10_StaysAtZero(deltaMs)
                              /\ C10_OpponentCounts(deltaMs)]_vars

(* one side has expired with freeze mode off, the turn has passed and a    *)
(* tick has just taken time off the opponent's clock                       *)
C10_Witness ==
  /\ ~freezeEnabled
  /\ status = "running"
  /\ running
  /\ lastTick.op = "tick"
  /\ ~lastTick.expired
  /\ activePlayer \in Sides
  /\ Expired(Opp(activePlayer))
  /\ players[Opp(activePlayer)].moves = 1
  /\ players[activePlayer].currentPeriod = 0
  /\ players[activePlayer].timeMs = 1000
  /\ PeriodAt(optionConfig, 0).timeMs = 2000

(* C5: the status changes only along idle -> running, running -> paused,   *)
(* paused -> running, running|paused -> frozen, paused|frozen ->           *)
(* correcting, correcting -> the status that held when correction was      *)
(* entered, and any status -> idle.                                        *)
C5_Edge ==
  status' # status =>
    \/ status' = "idle"
    \/ status = "idle" /\ status' = "running"
    \/ status = "running" /\ status' = "paused"
    \/ status = "paused" /\ status' = "running"
    \/ status \in {"running", "paused"} /\ status' = "frozen"
    \/ /\ status \in {"paused", "frozen"}
       /\ status' = "correcting"
       /\ preCorrectionStatus' = status
    \/ /\ status = "correcting"
       /\ status' = preCorrectionStatus
       /\ status' \in {"paused", "frozen"}

C5_StatusEdges == [][C5_Edge]_vars

(* The match is frozen, or in a correction entered while frozen            *)
FrozenMatch ==
  \/ status = "frozen"
  \/ status = "correcting" /\ preCorrectionStatus = "frozen"

(* C6: once the status is frozen nothing but a reset or a configure takes  *)
(* it out of {frozen, correcting} (running and paused are not reached), and *)
(* no tick changes either clock meanwhile.                                 *)
C6_Step ==
  FrozenMatch =>
    /\ FrozenMatch' \/ status' = "idle"
    /\ lastTick'.op = "tick" => players' = players

C6_FrozenIsTerminal == [][C6_Step]_vars

(* C3: while the scheduler runs, no tick is delivered between a 'hidden'   *)
(* signal and the next 'visible' signal, and that 'visible' signal         *)
(* delivers, before the frame loop is re-armed, exactly one tick whose     *)
(* delta is the wall-clock time elapsed since the 'hidden' signal          *)
(* (nothing to deliver when no time has elapsed).                          *)
C3_HiddenGap ==
  LET last == timerLog.last IN
    /\ (last.handler = "tick" /\ last.sinceHidden) => last.ticks = 0
    /\ (last.handler = "visible" /\ last.sinceHidden) =>
         /\ last.elapsed > 0 => last.ticks = 1 /\ last.delta = last.elapsed
         /\ last.elapsed = 0 => last.ticks = 0
         /\ last.ticks = 1 => last.rafAtTick = "null"
         /\ rafId = "live"

(* C4: the deltas delivered never add up to more than the wall-clock time  *)
(* during which the scheduler was running.                                 *)
C4_NoTimeFabricated == timerLog.delivered <= timerLog.ranMs

(* C11: whenever the scheduler is stopped, by a direct stop() or by a      *)
(* stop() called from inside the tick callback, no frame callback is       *)
(* pending: neither the one _rafId names nor one it no longer names.       *)
C11_StopLeavesNothingPending ==
  ~running => (rafId # "live" /\ stale = 0)

(* C12: a tick delivered while the status is idle, paused, frozen or       *)
(* correcting changes nothing: both sides' time, period, flag, delay and   *)
(* byo-yomi sub-state, the timing methods, the move counts and the status  *)
(* are what they were.                                                     *)
C12_Tick(deltaMs) ==
  (status # "running" /\ AppTick(deltaMs))
    => /\ UNCHANGED <<gameVars, pmVars, moveCounter>>
       /\ running' = running

C12_TickOutsideRunning == [][\A deltaMs \in Deltas : C12_Tick(deltaMs)]_vars

(* a tick has been delivered to a paused game whose clocks had already run *)
C12_Witness ==
  /\ lastTick.op = "tick"
  /\ status = "paused"
  /\ activePlayer \in Sides
  /\ optionConfig \in ConfigIds
  /\ players[activePlayer].timeMs < StartTime(optionConfig, activePlayer)
  /\ players[activePlayer].timeMs > 0

(* C13: a tick while running changes the inactive side's clock (time,      *)
(* period, move count, flag, delay and byo-yomi sub-state, timing method)  *)
(* only if that tick performs a time-based period transition.              *)
C13_Tick(deltaMs) ==
  LET B == Opp(activePlayer) IN
    (/\ status = "running"
     /\ activePlayer \in Sides
     /\ AppTick(deltaMs)
     /\ ~(lastTick'.methodExpired /\ lastTick'.periodTransition))
      => /\ players'[B] = players[B]
         /\ activeMethods'[B] = activeMethods[B]
         /\ periodStartMoves'[B] = periodStartMoves[B]
         /\ moveCounter'[B] = moveCounter[B]

C13_OnlyActiveClockTicks ==
  [][\A deltaMs \in Deltas : C13_Tick(deltaMs)]_vars

(* a tick has just moved the active side alone into the next period on     *)
(* its moves, the inactive side staying behind with its own clock          *)
C13_Witness ==
  /\ lastTick.op = "tick"
  /\ ~lastTick.methodExpired /\ lastTick.periodTransition
  /\ status = "running"
  /\ activePlayer \in Sides
  /\ players[activePlayer].currentPeriod = 1
  /\ players[Opp(activePlayer)].currentPeriod = 0
  /\ players[Opp(activePlayer)].moves > 0

(* C14: initGame with a configuration that has no periods leaves the       *)
(* GameState as it was: status, active side, stored configuration, freeze  *)
(* and sound flags, hasBeenStarted and both clocks.                        *)
C14_Step ==
  \A c \in MalformedIds : ApiInitGame(c) => UNCHANGED gameVars

C14_MalformedConfigRefused == [][C14_Step]_vars

(* The state a configuration c starts a game from                          *)
C15_Fresh(c) ==
  /\ status' = "idle"
  /\ activePlayer' = "none"
  /\ hasBeenStarted' = FALSE
  /\ freezeEnabled' = Configs[c].freezeDefault
  /\ soundEnabled' = Configs[c].soundDefault
  /\ \A s \in Sides :
       /\ players'[s].currentPeriod = 0
       /\ players'[s].timeMs =
            (IF s = "left" /\ Configs[c].leftTimeMs # -1
               THEN Configs[c].leftTimeMs
             ELSE IF s = "right" /\ Configs[c].rightTimeMs # -1
               THEN Configs[c].rightTimeMs
             ELSE Configs[c].periods[1].timeMs)
       /\ players'[s].moves = 0
       /\ moveCounter'[s] = 0
       /\ players'[s].flagState = "none"
       /\ players'[s].delayRemainingMs = 0
       /\ ~players'[s].inDelay

(* C15: a reset, and the selection of an option, from any status and after *)
(* any history leave status idle, no active side, hasBeenStarted false,    *)
(* freeze and sound at the configuration's defaults, and both clocks in    *)
(* period 0 with the side's override time or else period 0's time, no      *)
(* moves, no flag and the delay state cleared.                             *)
C15_Step ==
  /\ ConfirmReset => C15_Fresh(optionConfig)
  /\ \A c \in ConfigIds : SelectOption(c) => C15_Fresh(c)

C15_ResetIsFresh == [][C15_Step]_vars

(* a game that had left its Fischer period has just been reset             *)
C15_Witness ==
  /\ lastTick.op = "reset"
  /\ status = "idle"
  /\ \E s \in Sides :
       /\ activeMethods[s].type = "TIME"
       /\ PeriodAt(optionConfig, 0).method = "FISCHER"
       /\ players[s].currentPeriod = 0
       /\ players[s].timeMs = PeriodAt(optionConfig, 0).timeMs
       /\ players[s].flagState = "none"

(* C16: startGame(side) called while the status is running, paused,        *)
(* frozen or correcting leaves status, active side, hasBeenStarted and     *)
(* the colours as they were.                                               *)
C16_Step ==
  \A side \in Sides :
    (status # "idle" /\ ApiStartGame(side))
      => /\ UNCHANGED <<status, activePlayer, hasBeenStarted>>
         /\ \A s \in Sides : players'[s].color = players[s].color

C16_StartOnlyFromIdle == [][C16_Step]_vars

(* C17: a tap on side that starts an idle game makes the opponent of side  *)
(* the active side, the status running and hasBeenStarted true, colours    *)
(* side white and its opponent black, and starts the engine.               *)
C17_Start(side) ==
  (status = "idle" /\ HandleClockTap(side))
    => /\ status' = "running"
       /\ activePlayer' = Opp(side)
       /\ hasBeenStarted'
       /\ players'[side].color = "white"
       /\ players'[Opp(side)].color = "black"
       /\ running'

(* The first tick after the start runs on the opponent's clock: the        *)
(* initiating (white) side's clock is not decremented, and it is untouched *)
(* unless the tick makes a period transition; the active side's time goes  *)
(* down by the delta (to 0 at most) when no period is left.                *)
C17_FirstTick(deltaMs) ==
  LET A == activePlayer
      W == Opp(activePlayer)
  IN (lastTick.op = "start" /\ AppTick(deltaMs))
       => /\ players[W].color = "white"
          /\ players'[W].timeMs >= players[W].timeMs
          /\ ~lastTick'.periodTransition =>
               /\ players'[W] = players[W]
               /\ players'[A].timeMs = Max(0, players[A].timeMs - deltaMs)
               /\ players'[A].timeMs < players[A].timeMs

C17_StartGame ==
  [][/\ \A side \in Sides : C17_Start(side)
     /\ \A deltaMs \in Deltas : C17_FirstTick(deltaMs)]_vars

(* one tick after the start: the black side is active and has lost the     *)
(* tick's time, the white side has its starting time and no move is made   *)
C17_Witness ==
  /\ lastTick.op = "tick"
  /\ status = "running"
  /\ hasBeenStarted
  /\ correctionsApplied = 0
  /\ activePlayer \in Sides
  /\ players[activePlayer].color = "black"
  /\ players[Opp(activePlayer)].color = "white"
  /\ \A s \in Sides : players[s].moves = 0
  /\ players[Opp(activePlayer)].timeMs
       = StartTime(optionConfig, Opp(activePlayer))
  /\ players[activePlayer].timeMs
       = StartTime(optionConfig, activePlayer) - 1000
  /\ players[activePlayer].timeMs > 0

(* What an ignored request leaves alone: status, active side, both clocks  *)
(* and both move counts (and the rest of the GameState)                    *)
C18_Ignored == UNCHANGED <<gameVars, pmVars, moveCounter>>

(* C18: pause when not running, resume when not paused, togglePause in     *)
(* idle/frozen/correcting, freeze in idle/frozen/correcting,               *)
(* enterCorrectionMode in idle/running/correcting, exitCorrectionMode when *)
(* not correcting and switchTurn when not running are no-ops.              *)
C18_Step ==
  /\ (status # "running" /\ ApiPause) => C18_Ignored
  /\ (status # "paused" /\ ApiResume) => C18_Ignored
  /\ (status \in {"idle", "frozen", "correcting"} /\ ApiTogglePause)
       => C18_Ignored
  /\ (status \in {"idle", "frozen", "correcting"} /\ ApiFreeze)
       => C18_Ignored
  /\ (status \in {"idle", "running", "correcting"}
      /\ ApiEnterCorrectionMode) => C18_Ignored
  /\ (status # "correcting" /\ ApiExitCorrectionMode) => C18_Ignored
  /\ (status # "running" /\ ApiSwitchTurn) => C18_Ignored

C18_InvalidRequestsIgnored == [][C18_Step]_vars

(* a request has just been ignored in a frozen game (every request but     *)
(* enterCorrectionMode and startGame is invalid there)                     *)
C18_Witness ==
  /\ lastTick.op = "ignored"
  /\ status = "frozen"
  /\ activePlayer \in Sides
  /\ players[activePlayer].moves > 0

(* C19: a correction applied in correction mode leaves each side in the    *)
(* submitted period clamped into [0, totalPeriods-1], with a new instance  *)
(* of the timing method configured for that period, and the status that    *)
(* held when correction mode was entered.                                  *)
C19_Apply(corrected) ==
  LET maxPeriod == Len(Periods(optionConfig)) - 1
      lp == Max(0, Min(corrected.leftPeriod, maxPeriod))
      rp == Max(0, Min(corrected.rightPeriod, maxPeriod))
  IN (status = "correcting" /\ CorrectionSaveOf(corrected))
       => /\ players'["left"].currentPeriod = lp
          /\ players'["right"].currentPeriod = rp
          /\ activeMethods'["left"] = createMethod(PeriodAt(optionConfig, lp))
          /\ activeMethods'["right"] =
               createMethod(PeriodAt(optionConfig, rp))
          /\ status' = preCorrectionStatus
          /\ status' \in {"paused", "frozen"}

C20_Apply(corrected) ==
  (/\ corrected.leftMoves < 0 \/ corrected.rightMoves < 0
   /\ CorrectionSaveOf(corrected))
    => /\ corrected.leftMoves < 0 =>
            players'["left"].moves = 0 /\ moveCounter'["left"] = 0
       /\ corrected.rightMoves < 0 =>
            players'["right"].moves = 0 /\ moveCounter'["right"] = 0
       /\ players'["left"].timeMs = corrected.leftTimeMs
       /\ players'["right"].timeMs = corrected.rightTimeMs

C20_NegativeMovesClamped ==
  [][\A corrected \in OutOfDomain : C20_Apply(corrected)]_vars

(* The period after the side's current one is the END sentinel             *)
BeforeEnd(side) ==
  /\ players[side].currentPeriod + 1 < Len(Periods(optionConfig))
  /\ PeriodAt(optionConfig, players[side].currentPeriod + 1).method = "END"

(* C21: a tick that exhausts the active side's time in a period followed   *)
(* by the END sentinel flags the side blinking, reports expiry, leaves     *)
(* both sides' periods as they are and, with freeze mode enabled, freezes  *)
(* the match and stops the scheduler.                                      *)
C21_Tick(deltaMs) ==
  (/\ DrivesToZero(deltaMs)
   /\ BeforeEnd(activePlayer)
   /\ AppTick(deltaMs))
  => /\ players'[activePlayer].flagState = "blinking"
     /\ lastTick'.expired /\ ~lastTick'.periodTransition
     /\ \A s \in Sides : players'[s].currentPeriod = players[s].currentPeriod
     /\ freezeEnabled => status' = "frozen" /\ ~running'

C21_EndSentinelExpiry == [][\A deltaMs \in Deltas : C21_Tick(deltaMs)]_vars

(* The side's method is byo-yomi with a finite number of moments           *)
FiniteByoYomi ==
  /\ activeMethods[MethodSide].type = "BYO_YOMI"
  /\ activeMethods[MethodSide].byoMoments > 0
  /\ activeMethods[MethodSide].byoTimeMs > 0

(* C22: under finite byo-yomi a tick of m * byoTime + k (m >= 1,           *)
(* 0 <= k < byoTime) on a full moment, with more than m moments remaining, *)
(* takes exactly m moments, leaves byoTime - k, and reports momentExpired  *)
(* and not expired.                                                        *)
C22_Tick(deltaMs) ==
  LET byoTimeMs == activeMethods[MethodSide].byoTimeMs
      m == deltaMs \div byoTimeMs
      k == deltaMs % byoTimeMs
      p == players[MethodSide]
  IN (/\ FiniteByoYomi
      /\ p.timeMs = byoTimeMs
      /\ m >= 1
      /\ p.byoMomentsRemaining > m
      /\ MethodTick(deltaMs))
     => /\ players'[MethodSide].byoMomentsRemaining
             = p.byoMomentsRemaining - m
        /\ players'[MethodSide].timeMs = byoTimeMs - k
        /\ turnLog'.last.momentExpired
        /\ ~turnLog'.last.expired

C22_MomentOverflowCarry ==
  [][\A deltaMs \in MethodDeltas : C22_Tick(deltaMs)]_vars

(* A tick of two moments and a half has been given on the first, full      *)
(* moment of three                                                         *)
C22_Witness ==
  /\ FiniteByoYomi
  /\ turnLog.ticks = 1
  /\ turnLog.last.op = "tick"
  /\ turnLog.last.deltaMs = 2 * activeMethods[MethodSide].byoTimeMs + 500
  /\ turnLog.consumed = 2
  /\ players[MethodSide].byoMomentsRemaining = 1

(* C23: at a byo-yomi turn end with time remaining, the remaining time is  *)
(* reset to the full byoTime when no moment was taken during the turn and  *)
(* left as it is when at least one moment was taken, also in the turn in   *)
(* which the side entered the byo-yomi period.                             *)
C23_End ==
  (/\ activeMethods[MethodSide].type = "BYO_YOMI"
   /\ players[MethodSide].timeMs > 0
   /\ MethodTurnEnd)
  => players'[MethodSide].timeMs =
       IF turnLog.consumed = 0 THEN activeMethods[MethodSide].byoTimeMs
                               ELSE players[MethodSide].timeMs

C23_TurnEndKeepsConsumedMoment == [][C23_End]_vars

(* C24: a byo-yomi tick reports expired only when the number of moments is *)
(* finite and the last moment is exhausted, and then no time and no moment *)
(* remains; with 0 (infinitely many) moments no tick reports expired and   *)
(* the remaining time is strictly positive after every tick.               *)
C24_Tick(deltaMs) ==
  (/\ activeMethods[MethodSide].type = "BYO_YOMI"
   /\ MethodTick(deltaMs))
  => /\ turnLog'.last.expired
          => /\ activeMethods[MethodSide].byoMoments > 0
             /\ players'[MethodSide].timeMs = 0
             /\ players'[MethodSide].byoMomentsRemaining = 0
     /\ activeMethods[MethodSide].byoMoments = 0
          => /\ ~turnLog'.last.expired
             /\ players'[MethodSide].timeMs > 0

C24_ByoYomiExpiry == [][\A deltaMs \in MethodDeltas : C24_Tick(deltaMs)]_vars

(* The last of the moments has been taken by a tick                        *)
C24_Witness ==
  /\ FiniteByoYomi
  /\ turnLog.last.op = "tick"
  /\ turnLog.last.expired
  /\ turnLog.consumed > 0
  /\ players[MethodSide].byoMomentsRemaining = 0

(* C25: under the separate (US) delay d, however the time T of a turn is   *)
(* split into ticks after onTurnStart, the main time is the time at the    *)
(* turn's start less max(0, T - d), floored at 0, inDelay holds exactly    *)
(* while T < d, and delayRemaining is max(0, d - T).                       *)
C25_UsDelaySplit ==
  (/\ activeMethods[MethodSide].type = "US_DELAY"
   /\ turnLog.inTurn
   /\ ~turnLog.entered)
  => LET d == activeMethods[MethodSide].delayMs
         T == turnLog.usedMs
         p == players[MethodSide]
     IN /\ p.timeMs = Max(0, turnLog.startMs - Max(0, T - d))
        /\ p.inDelay <=> T < d
        /\ p.delayRemainingMs = Max(0, d - T)

(* A single tick of d + 500 has run in a turn                              *)
C25_Witness ==
  /\ activeMethods[MethodSide].type = "US_DELAY"
  /\ turnLog.inTurn
  /\ turnLog.last.op = "tick"
  /\ turnLog.usedMs = turnLog.last.deltaMs
  /\ turnLog.usedMs = activeMethods[MethodSide].delayMs + 500
  /\ players[MethodSide].timeMs = turnLog.startMs - 500
  /\ ~players[MethodSide].inDelay

(* C26: a turn under the compensating (Bronstein) delay whose ticks total  *)
(* u without expiry ends with the time at the turn's start less            *)
(* max(0, u - delay): never more than at the turn's start and at least     *)
(* min(time after the ticks + delay, time at the turn's start); an expired *)
(* side, or one whose snapshot is not positive, is not compensated.        *)
C26_End ==
  (/\ activeMethods[MethodSide].type = "DELAY"
   /\ ~turnLog.entered
   /\ MethodTurnEnd)
  => LET delay == activeMethods[MethodSide].delayMs
         snapshot == turnLog.startMs
         u == turnLog.usedMs
         before == players[MethodSide].timeMs
         after == players'[MethodSide].timeMs
     IN IF before <= 0 \/ snapshot <= 0
        THEN after = before
        ELSE /\ after = snapshot - Max(0, u - delay)
             /\ after <= snapshot
             /\ after >= Min(before + delay, snapshot)

C26_BronsteinCap == [][C26_End]_vars

(* A turn that used more than the delay has ended                          *)
C26_Witness ==
  /\ activeMethods[MethodSide].type = "DELAY"
  /\ turnLog.last.op = "end"
  /\ ~turnLog.expiredInTurn
  /\ turnLog.usedMs = activeMethods[MethodSide].delayMs + 500
  /\ players[MethodSide].timeMs = turnLog.startMs - 500

(* C27: a Fischer turn that uses u without expiring ends with the time at  *)
(* its start less u plus the bonus; when the time reached 0 the turn end   *)
(* adds no bonus and the time stays 0.                                     *)
C27_End ==
  (/\ activeMethods[MethodSide].type = "FISCHER"
   /\ ~turnLog.entered
   /\ MethodTurnEnd)
  => LET bonus == activeMethods[MethodSide].delayMs
         u == turnLog.usedMs
         before == players[MethodSide].timeMs
         after == players'[MethodSide].timeMs
     IN /\ turnLog.expiredInTurn => before = 0
        /\ IF before <= 0 THEN after = 0
           ELSE after = turnLog.startMs - u + bonus

C27_FischerBonus == [][C27_End]_vars

(* A turn that used less than the bonus has ended above its start          *)
C27_Witness ==
  /\ activeMethods[MethodSide].type = "FISCHER"
  /\ turnLog.last.op = "end"
  /\ turnLog.usedMs = 500
  /\ turnLog.usedMs < activeMethods[MethodSide].delayMs
  /\ players[MethodSide].timeMs =
       turnLog.startMs + activeMethods[MethodSide].delayMs - 500
  /\ players[MethodSide].timeMs > StartTime(optionConfig, MethodSide)

(* C28: under sudden death (TIME) the ticks totalling T up to the initial  *)
(* time leave the initial time less T, never a negative time; the tick     *)
(* that brings the total to the initial time or past it reports expired    *)
(* and leaves exactly 0 (in a period that is followed by another one the   *)
(* PeriodManager then assigns the time of the next period).                *)
C28_Tick(deltaMs) ==
  (/\ activeMethods[MethodSide].type = "TIME"
   /\ MethodTick(deltaMs))
  => LET initial == StartTime(optionConfig, MethodSide)
         T == turnLog'.tickedMs
         after == players'[MethodSide].timeMs
         stays == ~turnLog'.last.periodTransition
     IN /\ T <= initial /\ stays => after = initial - T /\ after >= 0
        /\ T < initial => ~turnLog'.last.expired /\ stays
        /\ T >= initial => turnLog'.last.expired /\ (stays => after = 0)

C28_SuddenDeath == [][\A deltaMs \in MethodDeltas : C28_Tick(deltaMs)]_vars

(* The second or a later tick has brought the total to the initial time    *)
C28_Witness ==
  /\ activeMethods[MethodSide].type = "TIME"
  /\ turnLog.last.op = "tick"
  /\ turnLog.ticks >= 2
  /\ turnLog.tickedMs = StartTime(optionConfig, MethodSide)
  /\ turnLog.last.expired
  /\ players[MethodSide].timeMs = 0

(* C29: the Canadian byo-yomi reload sets the remaining time to            *)
(* min(byoTimeMs, 599000) and the count of moves in the period to 0,       *)
(* whatever the time was before (also 0 after expiry), and a second reload *)
(* right after it changes nothing.                                         *)
C29_Reload ==
  (/\ activeMethods[MethodSide].type = "CANADIAN_BYO"
   /\ MethodReload)
  => LET pc == PeriodAt(optionConfig, players[MethodSide].currentPeriod)
         again == reloadCanadianByo(
                    [GS EXCEPT !.players = players'],
                    [am |-> activeMethods', psm |-> periodStartMoves'],
                    MethodSide)
     IN /\ players'[MethodSide].timeMs = Min(pc.byoTimeMs, CanadianMaxMs)
        /\ activeMethods'[MethodSide].movesInPeriod = 0
        /\ again.g.players = players'
        /\ again.pm.am = activeMethods'

C29_CanadianReload == [][C29_Reload]_vars

(* A reload after the time expired in a turn that followed a counted move, *)
(* on the option whose byoTimeMs is above the cap                          *)
C29_Witness ==
  /\ activeMethods[MethodSide].type = "CANADIAN_BYO"
  /\ PeriodAt(optionConfig, 0).byoTimeMs > CanadianMaxMs
  /\ turnLog.last.op = "reload"
  /\ turnLog.turns >= 2
  /\ turnLog.expiredInTurn
  /\ players[MethodSide].timeMs = CanadianMaxMs
  /\ activeMethods[MethodSide].movesInPeriod = 0

(* The GameState without its subscribers                                   *)
Quiet(g) == [g EXCEPT !.listeners = << >>, !.notified = NoNotification]

Subscribed(ls) == {ls[i] : i \in 1..Len(ls)}

(* C30: the notification of a mutating operation invokes every listener    *)
(* subscribed at that time, in order, also after an earlier one has        *)
(* thrown; no exception leaves notify and the GameState is the one the     *)
(* operation leaves when nobody listens; a listener that was unsubscribed  *)
(* is in no later notification, as only onChange adds to the listeners.    *)
C30_Operation(name) ==
  LET alone == ApiOp(name, Quiet(GS)) IN
  (/\ ApiOperation(name)
   /\ alone # Quiet(GS))
  => /\ notified'.invoked = listeners
     /\ notified'.caught =
          Cardinality({i \in 1..Len(listeners) : Throws(listeners[i])})
     /\ ~notified'.escaped
     /\ Quiet(GS)' = alone
     /\ Subscribed(listeners') \subseteq Subscribed(listeners)
     /\ "unsubscriber" \in Subscribed(listeners)
          => "counter" \notin Subscribed(listeners')

C30_Unsubscribe(l) ==
  Unsubscribe(l)
  => /\ l \notin Subscribed(listeners')
     /\ Subscribed(listeners') = Subscribed(listeners) \ {l}
     /\ notified' = notified

C30_ListenersIsolated ==
  [][/\ \A name \in ApiOpNames : C30_Operation(name)
     /\ \A l \in Listeners : C30_Unsubscribe(l)]_vars

(* A notification has invoked the listener subscribed after the one that   *)
(* throws, and the game runs                                               *)
C30_Witness ==
  /\ notified.invoked = <<"thrower", "counter">>
  /\ notified.caught = 1
  /\ ~notified.escaped
  /\ status = "running"

(* The side has no period to go on to: it is in the last period or the     *)
(* next one is the END sentinel                                            *)
NoNextPeriod(side) == InLastPeriod(side) \/ BeforeEnd(side)

(* C31: a tick flags the active side blinking, reports expiry or freezes   *)
(* the match only if that side's remaining time is 0 after it; a side that *)
(* completed the moves of a Fischer period without a next period, with     *)
(* time left, is neither flagged nor frozen.                               *)
C31_Tick(deltaMs) ==
  (/\ status = "running"
   /\ activePlayer \in Sides
   /\ NoNextPeriod(activePlayer)
   /\ players[activePlayer].flagState = "none"
   /\ AppTick(deltaMs)
   /\ players'[activePlayer].timeMs > 0)
  => /\ players'[activePlayer].flagState = "none"
     /\ ~lastTick'.expired
     /\ status' = "running"

C31_ExpiryOnlyAtZero == [][\A deltaMs \in Deltas : C31_Tick(deltaMs)]_vars

(* C32: a time-based period transition never takes time from the opponent  *)
(* it promotes by synchronisation: the opponent's clock after the tick is  *)
(* at least its clock before, whatever the method of the next period.      *)
C32_Tick(deltaMs) ==
  LET opp == CHOOSE s \in Sides : s # MethodSide IN
  (/\ MethodTick(deltaMs)
   /\ turnLog'.last.expired
   /\ turnLog'.last.periodTransition
   /\ players'[opp].currentPeriod = players[opp].currentPeriod + 1)
  => players'[opp].timeMs >= players[opp].timeMs

C32_SyncKeepsOpponentTime ==
  [][\A deltaMs \in MethodDeltas : C32_Tick(deltaMs)]_vars

(* C33: ending a turn never decreases the outgoing side's remaining time,  *)
(* for every timing method, also for a Bronstein turn during which the     *)
(* time was raised above its turn-start snapshot by a period transition.   *)
C33_End ==
  MethodTurnEnd => players'[MethodSide].timeMs >= players[MethodSide].timeMs

C33_TurnEndNeverDecreases == [][C33_End]_vars

(* C34: the byo-yomi onTick does not depend on how the elapsed time is     *)
(* batched: a tick of d1 followed by a tick of d2 leaves the remaining     *)
(* time and the remaining moments that one tick of d1 + d2 leaves, in      *)
(* finite and in infinite mode, also when a moment is overshot.            *)
C34_Tick(d1) ==
  LET m == activeMethods[MethodSide] IN
  (/\ m.type = "BYO_YOMI"
   /\ MethodTick(d1))
  => \A d2 \in MethodDeltas :
       LET split == ByoYomiOnTick(m, d2, players'[MethodSide])
           whole == ByoYomiOnTick(m, d1 + d2, players[MethodSide])
       IN /\ split.p.timeMs = whole.p.timeMs
          /\ split.p.byoMomentsRemaining = whole.p.byoMomentsRemaining

C34_TickBatching == [][\A d1 \in MethodDeltas : C34_Tick(d1)]_vars

(* The US-delay method with the delay of a Bronstein method                *)
UsDelayLike(m) == [m EXCEPT !.type = "US_DELAY"]

(* C35: US delay and Bronstein delay have the same outcome: a turn started *)
(* with the same main time and delay in which the same time elapses ends   *)
(* with the same main time and the same expired verdict.                   *)
C35_Tick(deltaMs) ==
  LET m == activeMethods[MethodSide]
      us == UsDelayLike(m)
      p == players[MethodSide]
      bronsteinTick == MethodOnTick(m, deltaMs, p)
      bronsteinEnd == MethodOnTurnEnd(m, bronsteinTick.p)
      usStart == MethodOnTurnStart(us, p)
      usTick == MethodOnTick(us, deltaMs, usStart.p)
      usEnd == MethodOnTurnEnd(us, usTick.p)
  IN (/\ m.type = "DELAY"
      /\ turnLog.inTurn /\ turnLog.usedMs = 0
      /\ MethodTick(deltaMs))
     => /\ bronsteinTick.expired = usTick.expired
        /\ bronsteinEnd.p.timeMs = usEnd.p.timeMs

C35_DelayEquivalence == [][\A deltaMs \in MethodDeltas : C35_Tick(deltaMs)]_vars

(* The steps that configure or reset the game, or apply a correction, as   *)
(* the handlers record them                                                *)
C36_Reconfigures ==
  lastTick'.op \in {"select", "reset", "correction", "correction-clamped"}

(* C36: between one configuration or reset and the next, and without a     *)
(* correction being applied, each side's period index never decreases,     *)
(* grows by at most 1 in a tick, and lies in 0 .. number of periods - 1.   *)
C36_Step ==
  \A s \in Sides :
    /\ ~C36_Reconfigures =>
         /\ players'[s].currentPeriod >= players[s].currentPeriod
         /\ players'[s].currentPeriod <= players[s].currentPeriod + 1
         /\ players'[s].currentPeriod # players[s].currentPeriod =>
              lastTick'.op = "tick"
    /\ players'[s].currentPeriod \in 0 .. Len(Periods(optionConfig')) - 1

C36_PeriodIndexMonotone == [][C36_Step]_vars

C36_Witness ==
  /\ lastTick.periodTransition
  /\ \E s \in Sides : players[s].currentPeriod = 2
  /\ \E s \in Sides : players[s].currentPeriod = 0

(* The methods that count the remaining time down                          *)
CountdownTypes ==
  {"TIME", "FISCHER", "DELAY", "US_DELAY", "BYO_YOMI", "CANADIAN_BYO"}

(* C37: after every completed operation (tick, turn start, turn end,       *)
(* period transition, reload) each side's remaining time under a countdown *)
(* method is at least 0.                                                   *)
C37_RemainingNonNegative ==
  \A s \in Sides :
    activeMethods[s].type \in CountdownTypes => players[s].timeMs >= 0

C37_Witness ==
  /\ turnLog.last.op = "tick"
  /\ turnLog.usedMs > turnLog.startMs
  /\ activeMethods[MethodSide].type \in CountdownTypes
  /\ turnLog.last.expired
  /\ players[MethodSide].timeMs = 0

(* C38: in every reachable state of the application the scheduler is       *)
(* running if and only if the game status is running.                      *)
C38_SchedulerFollowsStatus == running <=> status = "running"

(* C39: each side's active timing method, reported as its method           *)
(* identifier, is the method configured for the side's current period      *)
(* index: after a start, a turn switch, every tick and transition, a       *)
(* correction, and after a reset or a selection.                           *)
C39_ActiveMethodIsConfigured ==
  lastTick.op \in {"start", "switch", "tick", "correction",
                   "correction-clamped", "reset", "select"}
  => \A s \in Sides :
       getMethodType(PM, s)
         = PeriodAt(optionConfig, players[s].currentPeriod).method

(* C40: every delta a frame callback delivers is greater than 0 and at     *)
(* most 1000 ms; a delivered delta above 1000 ms comes only from the       *)
(* handler of the page becoming visible, which delivers one tick.          *)
C40_FrameDeltaBounded ==
  /\ (timerLog.last.handler = "tick" /\ timerLog.last.ticks = 1)
       => /\ timerLog.last.delta > 0
          /\ timerLog.last.delta <= MaxFrameDelta
  /\ timerLog.last.delta > MaxFrameDelta
       => timerLog.last.handler = "visible" /\ timerLog.last.ticks = 1
  /\ timerLog.last.ticks = 0 => timerLog.last.delta = 0

(* The first delivery is a frame tick of the maximum, after the engine has *)
(* run for longer than that                                                *)
C40_Witness ==
  /\ timerLog.last.handler = "tick"
  /\ timerLog.last.ticks = 1
  /\ timerLog.last.delta = MaxFrameDelta
  /\ timerLog.delivered = MaxFrameDelta
  /\ timerLog.ranMs > MaxFrameDelta

====
